---------------------------- MODULE Spec2Model ----------------------------
(***************************************************************************)
(* A model of json_stream's lazy pull parser (src/src/parse.rs) and of its *)
(* emitter (src/src/emit.rs).                                              *)
(*                                                                         *)
(* A byte is a one-character string, the input a sequence of bytes.  The   *)
(* parser's state is the position of its byte source and its vector of     *)
(* deferred skips; the caller's state is the sequence of sub-parser        *)
(* handles it holds.  Every function of parse.rs is an operator of the     *)
(* same name that maps a session record [pos, skips, panic] to the session *)
(* it leaves behind (and the value it returns); every public method is an  *)
(* action that applies the operator to the parser's state.                 *)
(*                                                                         *)
(* History kept for the properties only: the field drained of a session    *)
(* (do_skips has run in it), the field yielded of a handle and the         *)
(* variable yielded (what next() has returned so far), the variable last.  *)
(*                                                                         *)
(* A second specification of the parser runs the drain of a next() one     *)
(* turn of a loop at a time (variables running, stack), to show that it    *)
(* ends.                                                                   *)
(*                                                                         *)
(* The emitter (src/src/emit.rs) is modelled the same way: the sink is a   *)
(* record of the bytes it has taken, every function of emit.rs maps a sink *)
(* to the sink it leaves behind and to whether it returned Ok, and every   *)
(* public method is an action on the innermost live handle.  History kept  *)
(* for the properties only: elog, refused, elast.                          *)
(***************************************************************************)
EXTENDS Integers, Sequences, FiniteSets, TLC

VARIABLES
    input,      \* the bytes handed to Parser::new
    pos,        \* how many bytes Parser.src has yielded so far
    skips,      \* Parser.skips
    panicked,   \* a panic!/assert!/unwrap has aborted the program
    handles,    \* the live sub-parser handles of the caller, oldest first
    yielded,    \* what Parser.next() has returned so far
    last,       \* what the last operation was and what it returned
    running,    \* the operation whose drain is under way, if one is
    stack,      \* the loops of that drain that have not finished, outermost first
    dst,        \* Emitter.dst, the sink, with the bytes it has taken
    started,    \* Emitter.started
    emits,      \* the live emitter handles of the caller, outermost first
    elog,       \* the emitter calls that have returned Ok so far
    refused,    \* the sink has refused a write
    elast       \* what the last emitter operation was

pvars == <<input, pos, skips, handles, yielded, last, running, stack>>
evars == <<dst, started, emits, elog, refused, elast>>
vars == <<input, pos, skips, panicked, handles, yielded, last, running, stack,
          dst, started, emits, elog, refused, elast>>

-----------------------------------------------------------------------------
(* Bytes *)

None == "EOF"

Whitespace == {" ", "\t", "\n", "\f", "\r"}

Digit == {"0", "1", "2", "3", "4", "5", "6", "7", "8", "9"}

Alphabetic ==
    {"a", "b", "c", "d", "e", "f", "g", "h", "i", "j", "k", "l", "m", "n", "o",
     "p", "q", "r", "s", "t", "u", "v", "w", "x", "y", "z",
     "A", "B", "C", "D", "E", "F", "G", "H", "I", "J", "K", "L", "M", "N", "O",
     "P", "Q", "R", "S", "T", "U", "V", "W", "X", "Y", "Z"}

is_ascii_whitespace(b) == b \in Whitespace

is_ascii_alphabetic(b) == b \in Alphabetic

-----------------------------------------------------------------------------
(* Skip jobs and results *)

Skip(kind, key_consumed) == [kind |-> kind, key_consumed |-> key_consumed]

SkipArray == Skip("Array", FALSE)
SkipObject == Skip("Object", FALSE)
SkipString == Skip("String", FALSE)
SkipObjectValue(key_consumed) == Skip("ObjectValue", key_consumed)

\* A returned value: kind is None, Panic, Err, Ok (of read_into), Char, KeyVal
\* or a variant of Json; val is the error's name, the boolean or the number's
\* representation; text is the number's token, the string read or the char
\* made from a byte; cp is the scalar value of a char made by a \u escape; at
\* is the offset of the item's first byte.
Res(kind, val, text) ==
    [kind |-> kind, val |-> val, text |-> text, cp |-> 0, at |-> 0]

NoneRes == Res("None", "", <<>>)
PanicRes == Res("Panic", "", <<>>)
Err(e) == Res("Err", e, <<>>)

HandleKinds == {"String", "Array", "Object", "KeyVal", "Chars"}

-----------------------------------------------------------------------------
(* impl Parse for Parser: the byte cursor and the skip vector *)

peek_byte(s) == IF s.pos < Len(input) THEN input[s.pos + 1] ELSE None

next_byte(s) ==
    [b |-> peek_byte(s),
     s |-> IF s.pos < Len(input) THEN [s EXCEPT !.pos = @ + 1] ELSE s]

RECURSIVE eat_until_whitespace(_)
eat_until_whitespace(s) ==
    LET r == next_byte(s) IN
    IF r.b = None \/ is_ascii_whitespace(r.b) THEN r.s
    ELSE eat_until_whitespace(r.s)

RECURSIVE eat_whitespace(_)
eat_whitespace(s) ==
    LET b == peek_byte(s) IN
    IF b = None \/ ~is_ascii_whitespace(b) THEN s
    ELSE eat_whitespace(next_byte(s).s)

add_skip(s, job) == [s EXCEPT !.skips = Append(@, job)]

Panic(s) == [s EXCEPT !.panic = TRUE]


-----------------------------------------------------------------------------
(* str::parse::<u64>, ::<i64>, ::<f64> on the text of a number token *)

DigitVal(d) ==
    CASE d = "0" -> 0 [] d = "1" -> 1 [] d = "2" -> 2 [] d = "3" -> 3
      [] d = "4" -> 4 [] d = "5" -> 5 [] d = "6" -> 6 [] d = "7" -> 7
      [] d = "8" -> 8 [] d = "9" -> 9

IsDigits(t) == Len(t) > 0 /\ \A i \in 1..Len(t) : t[i] \in Digit

RECURSIVE TrimZeros(_)
TrimZeros(t) ==
    IF Len(t) > 1 /\ t[1] = "0" THEN TrimZeros(Tail(t)) ELSE t

\* a <= b for two digit strings without leading zeros
DigitsLeq(a, b) ==
    \/ Len(a) < Len(b)
    \/ /\ Len(a) = Len(b)
       /\ \/ a = b
          \/ \E i \in 1..Len(a) :
                /\ DigitVal(a[i]) < DigitVal(b[i])
                /\ \A j \in 1..(i - 1) : a[j] = b[j]

U64Max ==
    <<"1", "8", "4", "4", "6", "7", "4", "4", "0", "7",
      "3", "7", "0", "9", "5", "5", "1", "6", "1", "5">>
I64Max ==
    <<"9", "2", "2", "3", "3", "7", "2", "0", "3", "6",
      "8", "5", "4", "7", "7", "5", "8", "0", "7">>
I64MinMagnitude ==
    <<"9", "2", "2", "3", "3", "7", "2", "0", "3", "6",
      "8", "5", "4", "7", "7", "5", "8", "0", "8">>

Min(S) == CHOOSE i \in S : \A j \in S : i <= j
HasPlus(t) == Len(t) > 0 /\ t[1] = "+"
HasSign(t) == Len(t) > 0 /\ t[1] \in {"+", "-"}
StripSign(t) == IF HasSign(t) THEN Tail(t) ELSE t

parse_u64(t) ==
    /\ IsDigits(IF HasPlus(t) THEN Tail(t) ELSE t)
    /\ DigitsLeq(TrimZeros(IF HasPlus(t) THEN Tail(t) ELSE t), U64Max)

parse_i64(t) ==
    /\ IsDigits(StripSign(t))
    /\ DigitsLeq(TrimZeros(StripSign(t)),
                 IF t[1] = "-" THEN I64MinMagnitude ELSE I64Max)

\* Number ::= ( Digit+ | Digit+ '.' Digit* | Digit* '.' Digit+ ) Exp?
\* Exp ::= 'e' Sign? Digit+
Mantissa(m) ==
    /\ \A i \in 1..Len(m) : m[i] \in Digit \cup {"."}
    /\ Cardinality({i \in 1..Len(m) : m[i] = "."}) <= 1
    /\ \E i \in 1..Len(m) : m[i] \in Digit

Float(body, es) ==
    IF es = {} THEN Mantissa(body)
    ELSE /\ Mantissa(SubSeq(body, 1, Min(es) - 1))
         /\ IsDigits(StripSign(SubSeq(body, Min(es) + 1, Len(body))))

parse_f64(t) ==
    Float(StripSign(t), {i \in 1..Len(StripSign(t)) : StripSign(t)[i] = "e"})

\* a From<i64> that would go by i <= 0, here the sign of the text
from_i64_by_sign(t) == IF t[1] = "-" THEN "NegInt" ELSE "PosInt"

\* impl From<i64> for Number: NegInt below zero, PosInt otherwise
from_i64(t) ==
    IF t[1] = "-" /\ TrimZeros(StripSign(t)) # <<"0">> THEN "NegInt" ELSE "PosInt"

-----------------------------------------------------------------------------
(* Item dispatch *)

RECURSIVE number_text(_, _)
number_text(s, text) ==
    LET b == peek_byte(s) IN
    IF b \in Digit \cup {".", "e", "+", "-"}
    THEN number_text(next_byte(s).s, Append(text, b))
    ELSE [s |-> s, text |-> text]

\* number_item without its first step
number_item_without_u64(s, text) ==
    IF parse_i64(text)
    THEN [s |-> s, res |-> Res("Number", from_i64(text), text)]
    ELSE IF parse_f64(text) THEN [s |-> s, res |-> Res("Number", "Float", text)]
    ELSE [s |-> Panic(s), res |-> PanicRes]

number_item(s, text) ==
    IF parse_u64(text) THEN [s |-> s, res |-> Res("Number", "PosInt", text)]
    ELSE IF parse_i64(text)
    THEN [s |-> s, res |-> Res("Number", from_i64(text), text)]
    ELSE IF parse_f64(text) THEN [s |-> s, res |-> Res("Number", "Float", text)]
    ELSE [s |-> Panic(s), res |-> PanicRes]

parse_number_text(r) == number_item(r.s, r.text)

parse_number(s, byte) == parse_number_text(number_text(s, <<byte>>))

\* parse_ident reporting the end of input as a mismatch
RECURSIVE parse_ident_eof_as_mismatch(_, _, _)
parse_ident_eof_as_mismatch(s, ident, res) ==
    IF ident = <<>> THEN [s |-> s, res |-> res]
    ELSE LET r == next_byte(s) IN
         IF r.b = None \/ r.b # Head(ident)
         THEN [s |-> eat_until_whitespace(r.s), res |-> Err("InvalidIdentifier")]
         ELSE parse_ident_eof_as_mismatch(r.s, Tail(ident), res)

RECURSIVE parse_ident(_, _, _)
parse_ident(s, ident, res) ==
    IF ident = <<>> THEN [s |-> s, res |-> res]
    ELSE LET r == next_byte(s) IN
         IF r.b = None THEN [s |-> r.s, res |-> Err("EofWhileParsingValue")]
         ELSE IF r.b # Head(ident)
              THEN [s |-> eat_until_whitespace(r.s), res |-> Err("InvalidIdentifier")]
              ELSE parse_ident(r.s, Tail(ident), res)

next_any_item(b, s) ==
    CASE b \in Digit \cup {"-"} -> parse_number(s, b)
      [] b = "n" -> parse_ident(s, <<"u", "l", "l">>, Res("Null", "", <<>>))
      [] b = "t" -> parse_ident(s, <<"r", "u", "e">>, Res("Bool", "true", <<>>))
      [] b = "f" -> parse_ident(s, <<"a", "l", "s", "e">>, Res("Bool", "false", <<>>))
      [] b = "[" -> [s |-> s, res |-> Res("Array", "", <<>>)]
      [] b = "{" -> [s |-> s, res |-> Res("Object", "", <<>>)]
      [] b = "\"" -> [s |-> s, res |-> Res("String", "", <<>>)]
      [] b \notin {"n", "t", "f"} /\ is_ascii_alphabetic(b) ->
            [s |-> eat_until_whitespace(s), res |-> Err("InvalidIdentifier")]
      [] OTHER -> [s |-> Panic(s), res |-> PanicRes]

-----------------------------------------------------------------------------
(* Strings *)

RECURSIVE skip_string_loop(_, _)
skip_string_loop(s, escape) ==
    LET r == next_byte(s) IN
    CASE r.b = None -> r.s
      [] r.b = "\\" /\ ~escape -> skip_string_loop(r.s, TRUE)
      [] r.b = "\"" /\ ~escape -> r.s
      [] OTHER -> skip_string_loop(r.s, FALSE)

skip_string(s) == skip_string_loop(s, FALSE)

RECURSIVE read_into_loop(_, _)
read_into_loop(s, buf) ==
    LET r == next_byte(s) IN
    CASE r.b = None -> [s |-> r.s, res |-> Res("Err", "EofWhileParsingString", buf)]
      [] r.b = "\"" -> [s |-> r.s, res |-> Res("Ok", "", buf)]
      [] OTHER -> read_into_loop(r.s, Append(buf, r.b))

ParseString_read_into(s, buf) == read_into_loop(s, buf)

ParseString_read_owned(s) ==
    LET r == ParseString_read_into(s, <<>>) IN
    IF r.res.kind = "Err" THEN [s |-> Panic(r.s), res |-> PanicRes] ELSE r

HexVal(c) ==
    CASE c \in Digit -> DigitVal(c)
      [] c = "a" -> 10 [] c = "b" -> 11 [] c = "c" -> 12
      [] c = "d" -> 13 [] c = "e" -> 14 [] c = "f" -> 15

Half == 256 * 256

\* val: u32 is kept as hi * 65536 + lo.  val * 16 + digit overflows u32 when
\* the new hi reaches 65536: a build with overflow checks panics there, a
\* build without them wraps.
RECURSIVE unicode_escape(_, _, _, _)
unicode_escape(s, hi, lo, overflow_checks) ==
    LET r == next_byte(s) IN
    CASE r.b = None -> [s |-> r.s, res |-> NoneRes]
      [] r.b \in Digit \cup {"a", "b", "c", "d", "e", "f"} ->
            LET l == lo * 16 + HexVal(r.b)
                h == hi * 16 + (l \div Half)
            IN  IF h >= Half /\ overflow_checks
                THEN [s |-> Panic(r.s), res |-> PanicRes]
                ELSE unicode_escape(r.s, h % Half, l % Half, overflow_checks)
      [] r.b = "}" ->
            \* char::try_from(val).ok()
            IF hi <= 16 /\ ~(hi = 0 /\ lo >= 55296 /\ lo <= 57343)
            THEN [s |-> r.s,
                  res |-> [Res("Char", "", <<>>) EXCEPT !.cp = hi * Half + lo]]
            ELSE [s |-> r.s, res |-> NoneRes]
      [] OTHER -> [s |-> r.s, res |-> NoneRes]

RECURSIVE chars_loop(_, _, _)
chars_loop(s, escape, overflow_checks) ==
    LET r == next_byte(s) IN
    CASE r.b = None -> [s |-> r.s, res |-> NoneRes]
      [] r.b = "\\" /\ ~escape -> chars_loop(r.s, TRUE, overflow_checks)
      [] r.b = "\"" /\ ~escape -> [s |-> r.s, res |-> NoneRes]
      [] r.b = "r" /\ escape -> [s |-> r.s, res |-> Res("Char", "", <<"\r">>)]
      [] r.b = "u" /\ escape ->
            LET r2 == next_byte(r.s) IN
            CASE r2.b = None -> [s |-> r2.s, res |-> NoneRes]
              [] r2.b = "{" ->
                    LET u == unicode_escape(r2.s, 0, 0, overflow_checks) IN
                    IF u.res.kind \in {"Char", "Panic"} THEN u
                    ELSE chars_loop(u.s, escape, overflow_checks)
              [] OTHER -> chars_loop(r2.s, escape, overflow_checks)
      [] OTHER -> [s |-> r.s, res |-> Res("Char", "", <<r.b>>)]

ParseChars_next(s, overflow_checks) == chars_loop(s, FALSE, overflow_checks)

-----------------------------------------------------------------------------
(* ParseArray, ParseObject, KeyVal and the deferred skips *)

\* The fields of a handle that its methods read and write.  owner is the
\* handle whose exclusive borrow this one holds (0: the Parser); start is the
\* offset of the first byte of the value the handle stands for.
Handle(kind, owner, start) ==
    [kind |-> kind, ended |-> FALSE, needs_comma |-> FALSE,
     key_consumed |-> FALSE, owner |-> owner, start |-> start,
     yielded |-> <<>>]

ParseArray_new == Handle("Array", 0, 0)
ParseObject_new == Handle("Object", 0, 0)

\* A drop that would skip an unread string at once instead of deferring it.
Drop_skipping_at_once(h, s) ==
    CASE h.kind = "Array" -> IF ~h.ended THEN add_skip(s, SkipArray) ELSE s
      [] h.kind = "Object" -> IF ~h.ended THEN add_skip(s, SkipObject) ELSE s
      [] h.kind = "KeyVal" -> add_skip(s, SkipObjectValue(h.key_consumed))
      [] h.kind = "String" -> skip_string(s)
      [] OTHER -> s

\* Drop for ParseArray, ParseObject, KeyVal, ParseString; ParseChars has no
\* Drop.  A KeyVal or ParseString that is still held has parse = Some.
Drop(h, s) ==
    CASE h.kind = "Array" -> IF ~h.ended THEN add_skip(s, SkipArray) ELSE s
      [] h.kind = "Object" -> IF ~h.ended THEN add_skip(s, SkipObject) ELSE s
      [] h.kind = "KeyVal" -> add_skip(s, SkipObjectValue(h.key_consumed))
      [] h.kind = "String" -> add_skip(s, SkipString)
      [] OTHER -> s

\* The drop of a returned Option<JResult> or Option<Result<KeyVal>> that
\* holds a sub-parser nobody took.
DropRes(res, s) ==
    IF res.kind \in HandleKinds THEN Drop(Handle(res.kind, 0, 0), s) ELSE s

RECURSIVE do_skips(_), run_skips(_, _), skip_array(_), skip_obj(_),
          skip_obj_value(_, _), ParseArray_next(_, _), ParseObject_next(_, _)

item_at(v, at) == [s |-> v.s, res |-> [v.res EXCEPT !.at = at]]

value_at(r, at) ==
    IF r.b = None THEN [s |-> r.s, res |-> Err("EofWhileParsingValue")]
    ELSE item_at(next_any_item(r.b, r.s), at)

value_after(s2) == value_at(next_byte(s2), s2.pos)

colon_then_value(colon) ==
    IF colon.b # ":" THEN [s |-> Panic(colon.s), res |-> PanicRes]
    ELSE value_after(eat_whitespace(colon.s))

read_value(s, key_consumed) ==
    colon_then_value(next_byte(eat_whitespace(
        IF ~key_consumed THEN skip_string(s) ELSE s)))

\* a do_skips that would iterate over the taken jobs from the back
do_skips_from_the_back(s) ==
    IF s.skips = <<>> THEN [s EXCEPT !.drained = TRUE]
    ELSE run_skips([i \in 1..Len(s.skips) |-> s.skips[Len(s.skips) + 1 - i]],
                   [s EXCEPT !.skips = <<>>, !.drained = TRUE])

do_skips(s) ==
    IF s.skips = <<>> THEN [s EXCEPT !.drained = TRUE]
    ELSE run_skips(s.skips, [s EXCEPT !.skips = <<>>, !.drained = TRUE])

\* the body of do_skips' for loop
run_skip(skip, s) ==
    CASE skip.kind = "String" -> skip_string(s)
      [] skip.kind = "Array" -> skip_array(s)
      [] skip.kind = "Object" -> skip_obj(s)
      [] skip.kind = "ObjectValue" -> skip_obj_value(s, skip.key_consumed)

\* a for loop that would pop the newest job first
run_skips_newest_first(taken, s) ==
    IF taken = <<>> \/ s.panic THEN s
    ELSE run_skips(SubSeq(taken, 1, Len(taken) - 1),
                   run_skip(taken[Len(taken)], s))

run_skips(taken, s) ==
    IF taken = <<>> \/ s.panic THEN s
    ELSE run_skips(Tail(taken), run_skip(Head(taken), s))

element(h, v, at) == [h |-> h, s |-> v.s, res |-> [v.res EXCEPT !.at = at]]

RECURSIVE ParseArray_loop(_, _)
ParseArray_loop(h, s) ==
    LET b == peek_byte(s)
        eaten == next_byte(s).s
    IN  CASE s.panic -> [h |-> h, s |-> s, res |-> PanicRes]
          [] ~s.panic /\ b = None -> [h |-> h, s |-> s, res |-> NoneRes]
          [] ~s.panic /\ b = "]" ->
                [h |-> [h EXCEPT !.ended = TRUE], s |-> eaten, res |-> NoneRes]
          [] ~s.panic /\ b = "," ->
                IF h.needs_comma
                THEN ParseArray_loop([h EXCEPT !.needs_comma = FALSE], eaten)
                ELSE [h |-> h, s |-> eaten,
                      res |-> [Err("TrailingComma") EXCEPT !.at = s.pos]]
          [] ~s.panic /\ is_ascii_whitespace(b) -> ParseArray_loop(h, eaten)
          [] OTHER ->
                IF h.needs_comma
                THEN [h |-> [h EXCEPT !.needs_comma = FALSE], s |-> s,
                      res |-> [Err("MissingComma") EXCEPT !.at = s.pos]]
                ELSE element([h EXCEPT !.needs_comma = TRUE],
                             next_any_item(b, eaten), s.pos)

\* a ParseArray::next that takes the end of the source for the end of the
\* array
ended_at_eof(r) == [r EXCEPT !.h.ended = @ \/ r.res.kind = "None"]

ParseArray_next_ending_at_eof(h, s) ==
    IF h.ended THEN [h |-> h, s |-> s, res |-> NoneRes]
    ELSE ended_at_eof(ParseArray_loop(h, do_skips(s)))

\* a ParseArray::next without the early return on ended
ParseArray_next_unguarded(h, s) == ParseArray_loop(h, do_skips(s))

ParseArray_next(h, s) ==
    IF h.ended THEN [h |-> h, s |-> s, res |-> NoneRes]
    ELSE ParseArray_loop(h, do_skips(s))

RECURSIVE ParseObject_loop(_, _)
ParseObject_loop(h, s) ==
    LET b == peek_byte(s)
        eaten == next_byte(s).s
    IN  CASE s.panic -> [h |-> h, s |-> s, res |-> PanicRes]
          [] ~s.panic /\ b = None -> [h |-> h, s |-> s, res |-> NoneRes]
          [] ~s.panic /\ (is_ascii_whitespace(b) \/ b = ",") ->
                ParseObject_loop(h, eaten)
          [] ~s.panic /\ b = "}" ->
                [h |-> [h EXCEPT !.ended = TRUE], s |-> eaten, res |-> NoneRes]
          [] ~s.panic /\ b = "\"" ->
                [h |-> h, s |-> eaten,
                 res |-> [Res("KeyVal", "", <<>>) EXCEPT !.at = s.pos]]
          [] OTHER -> [h |-> h, s |-> Panic(s), res |-> PanicRes]

ParseObject_next(h, s) ==
    IF h.ended THEN [h |-> h, s |-> s, res |-> NoneRes]
    ELSE ParseObject_loop(h, do_skips(s))

\* while p.next().is_some() {}, for p a ParseArray or a ParseObject, and
\* then the drop of p; r is what p.next() has just returned.
RECURSIVE drain(_)
drain(r) ==
    IF r.s.panic THEN r.s
    ELSE IF r.res.kind = "None" THEN Drop(r.h, r.s)
    ELSE IF r.h.kind = "Array"
         THEN drain(ParseArray_next(r.h, DropRes(r.res, r.s)))
         ELSE drain(ParseObject_next(r.h, DropRes(r.res, r.s)))

skip_array(s) == drain(ParseArray_next(ParseArray_new, s))

skip_obj(s) == drain(ParseObject_next(ParseObject_new, s))

\* the match on the value that skip_obj_value's loop has read
skip_value(r, key_consumed) ==
    CASE r.s.panic -> r.s
      [] ~r.s.panic /\ r.res.kind = "Err" -> skip_obj_value(r.s, key_consumed)
      [] ~r.s.panic /\ r.res.kind = "String" ->
            \* p.skip(), and then p is dropped with its parse still Some
            Drop(Handle("String", 0, 0), skip_string(r.s))
      [] ~r.s.panic /\ r.res.kind = "Array" -> skip_array(r.s)
      [] ~r.s.panic /\ r.res.kind = "Object" -> skip_obj(r.s)
      [] OTHER -> r.s

skip_obj_value(s, key_consumed) ==
    skip_value(read_value(s, key_consumed), key_consumed)

KeyVal_value(h, s) == read_value(s, h.key_consumed)

first_item(r, at) ==
    IF r.b = None THEN [s |-> r.s, res |-> NoneRes]
    ELSE item_at(next_any_item(r.b, r.s), at)

\* A Parser::next that would dispatch on the peeked byte without taking it.
item_after_peek(s2) == first_item([b |-> peek_byte(s2), s |-> s2], s2.pos)

item_after(s2) == first_item(next_byte(s2), s2.pos)

after_skips(s1) ==
    IF s1.panic THEN [s |-> s1, res |-> PanicRes]
    ELSE item_after(eat_whitespace(s1))

Parser_next(s) == after_skips(do_skips(s))

-----------------------------------------------------------------------------
(* The inputs *)

MaxNodes == 3

Quote == "\""

Atoms == {<<"1">>, <<Quote, "s", Quote>>}

Key == <<Quote, "k", Quote, ":">>

\* The well-formed values of exactly n nodes (a number, a string, an array or
\* an object is one node), the sequences of such values joined by sep, and
\* the sequences of key-value pairs.
RECURSIVE ValuesOf(_), ForestOf(_, _, _)
ValuesOf(n) ==
    IF n = 1 THEN Atoms \cup {<<"[", "]">>, <<"{", "}">>}
    ELSE {<<"[">> \o f \o <<"]">> : f \in ForestOf(n - 1, <<",">>, <<>>)}
         \cup {<<"{">> \o f \o <<"}">> : f \in ForestOf(n - 1, <<",">>, Key)}

ForestOf(m, sep, prefix) ==
    {prefix \o v : v \in ValuesOf(m)}
    \cup UNION {{prefix \o v \o sep \o f :
                    v \in ValuesOf(k), f \in ForestOf(m - k, sep, prefix)} :
                k \in 1..(m - 1)}

WellFormed == UNION {ForestOf(n, <<" ">>, <<>>) : n \in 1..MaxNodes}

\* Array bodies with commas gone wrong: up to MaxTokens tokens, each an element,
\* a comma or a space, no element directly after another.
MaxTokens == 4

Elements == {<<"1">>, <<"{">> \o Key \o <<Quote, "s", Quote, "}">>}

Tokens == Elements \cup {<<",">>, <<" ">>}

RECURSIVE TokenLists(_)
TokenLists(n) ==
    IF n = 0 THEN {<<>>}
    ELSE {<<>>} \cup
         {l \in {<<tok>> \o m : tok \in Tokens, m \in TokenLists(n - 1)} :
            ~(Len(l) > 1 /\ l[1] \in Elements /\ l[2] \in Elements)}

RECURSIVE Flatten(_)
Flatten(l) == IF l = <<>> THEN <<>> ELSE Head(l) \o Flatten(Tail(l))

ArrayOf(l) == <<"[">> \o Flatten(l) \o <<"]">>

CommaDocs == {ArrayOf(l) : l \in TokenLists(MaxTokens)}

\* An identifier that is none of null, true, false, then a space and a value.
BadIdents ==
    {<<"t", "r">>, <<"t", "r", "x", "u">>, <<"p", "o", "t", "a", "t", "o">>,
     <<"n", "u", "l">>, <<"f", "a", "l", "s">>, <<"x">>}

AfterIdent == {<<"f", "a", "l", "s", "e">>, <<"1">>}

IdentDocs == {id \o <<" ">> \o v : id \in BadIdents, v \in AfterIdent}

\* An array whose first element is an unknown identifier, written directly
\* before the comma or the bracket, or with a space in between.
ArrayIdents == {<<"p", "o", "t", "a", "t", "o">>, <<"x">>}

IdentArrays ==
    {<<"[">> \o id \o rest :
        id \in ArrayIdents,
        rest \in {<<",", "1", "]">>, <<"]">>, <<" ", ",", "1", "]">>, <<" ", "]">>}}

\* A value position that holds a byte no value begins with, at the top level
\* or as an array element.
Stray == {"]", "}", ":", ",", "+", "."}

StrayDocs ==
    {<<b>> : b \in Stray} \cup {<<b, " ", "1">> : b \in Stray}
    \cup {<<"[", b, "]">> : b \in Stray \ {"]", ","}}

\* One number token: the integers around the ends of the u64 and i64 ranges,
\* fractions and exponents, and texts that no parse accepts.
NumberDocs == {
    <<"0">>, <<"1">>, <<"-", "2">>, <<"-", "0">>, <<"0", "7">>,
    <<"6", ".", "2", "8">>, <<"1", "e", "5">>, <<"-", "1", ".", "5">>,
    <<"1", ".">>, <<"2", "e", "-", "3">>,
    I64Max, <<"-">> \o I64Max, <<"-">> \o I64MinMagnitude,
    I64MinMagnitude, U64Max,
    \* 18446744073709551616
    SubSeq(U64Max, 1, 19) \o <<"6">>,
    \* -9223372036854775809
    <<"-">> \o SubSeq(I64Max, 1, 18) \o <<"9">>,
    <<"1", ".", "2", ".", "3">>, <<"-">>, <<"1", "e">>, <<"1", "+">>,
    <<"1", "-", "2">>, <<"-", ".">>, <<"1", "e", "+">> }

Idents ==
    {<<"n", "u", "l", "l">>, <<"t", "r", "u", "e">>, <<"f", "a", "l", "s", "e">>}

\* The input ends inside an identifier, at the top level or in an array.
Prefixes == {SubSeq(id, 1, n) : id \in Idents, n \in 1..4} \ Idents

PrefixDocs == Prefixes \cup {<<"[">> \o pre : pre \in Prefixes}

\* Objects of three pairs whose first value is a string, an array or an object.
PairDocs ==
    {<<"{">> \o Key \o v \o <<",">> \o Key \o <<"1", ",">> \o Key \o <<"2", "}">> :
        v \in {<<Quote, "s", Quote>>, <<"[", "]">>, <<"{", "}">>}}

\* One string at the top level, given by its body.
StringDoc(body) == <<Quote>> \o body \o <<Quote>>

Backslash == "\\"

\* bodies with the escapes \\ and \": a\"bc, \\, \", a\\, ab
QuoteBodies == {
    <<"a", Backslash, Quote, "b", "c">>, <<Backslash, Backslash>>,
    <<Backslash, Quote>>, <<"a", Backslash, Backslash>>, <<"a", "b">> }

\* bodies of one escape: \\ \" \r \n \t \b \f \/ and \u{1234}, \u{ab34},
\* \u{AB34}, \u{41}
SimpleEscapes == {Backslash, Quote, "r", "n", "t", "b", "f", "/"}

UnicodeEscapes == {
    <<"1", "2", "3", "4">>, <<"a", "b", "3", "4">>, <<"A", "B", "3", "4">>,
    <<"4", "1">> }

UnicodeBody(hex) == <<Backslash, "u", "{">> \o hex \o <<"}">>

EscapeBodies ==
    {<<Backslash, c>> : c \in SimpleEscapes}
    \cup {UnicodeBody(hex) : hex \in UnicodeEscapes}

\* bodies of one invalid escape: \x, \u{d800}, \u{110000}, \u{123456789}
BadUnicode == {
    <<"d", "8", "0", "0">>, <<"1", "1", "0", "0", "0", "0">>,
    <<"1", "2", "3", "4", "5", "6", "7", "8", "9">> }

BadBodies == {<<Backslash, "x">>} \cup {UnicodeBody(hex) : hex \in BadUnicode}

StringDocs == {StringDoc(b) : b \in QuoteBodies \cup EscapeBodies \cup BadBodies}

\* A pair whose value is an object or array of two members, the first a
\* string: {"k":{"k":"s","k":1}} and {"k":["s",1]}
NestedDocs == {
    <<"{">> \o Key \o <<"{">> \o Key \o <<Quote, "s", Quote, ",">> \o Key
        \o <<"1", "}", "}">>,
    <<"{">> \o Key \o <<"[", Quote, "s", Quote, ",", "1", "]", "}">> }

\* null true false 0 1 -2 6.28
Basics ==
    <<"n", "u", "l", "l", " ", "t", "r", "u", "e", " ", "f", "a", "l", "s", "e", " ", "0", " ", "1", " ", "-", "2", " ", "6", ".", "2", "8">>

Scenarios == {
    Basics,
    \* [1 2]
    <<"[", "1", " ", "2", "]">>,
    \* [1 , ,, 2]
    <<"[", "1", " ", ",", " ", ",", ",", " ", "2", "]">>,
    \* [1,]
    <<"[", "1", ",", "]">>,
    \* trxu false
    <<"t", "r", "x", "u", " ", "f", "a", "l", "s", "e">>,
    \* potato false
    <<"p", "o", "t", "a", "t", "o", " ", "f", "a", "l", "s", "e">>,
    \* tr false
    <<"t", "r", " ", "f", "a", "l", "s", "e">>,
    \* nul
    <<"n", "u", "l">>,
    \* {"a":{"x":2}, "b":3}
    <<"{", "\"", "a", "\"", ":", "{", "\"", "x", "\"", ":", "2", "}", ",", " ", "\"", "b", "\"", ":", "3", "}">>,
    \* [1, [2,3], 4]
    <<"[", "1", ",", " ", "[", "2", ",", "3", "]", ",", " ", "4", "]">>,
    \* {"a" : 2, "b":[3, 4], "c": false}
    <<"{", "\"", "a", "\"", " ", ":", " ", "2", ",", " ", "\"", "b", "\"", ":", "[", "3", ",", " ", "4", "]", ",", " ", "\"", "c", "\"", ":", " ", "f", "a", "l", "s", "e", "}">>,
    \* "a\"bc"
    <<"\"", "a", "\\", "\"", "b", "c", "\"">>,
    \* "\u{1234}"
    <<"\"", "\\", "u", "{", "1", "2", "3", "4", "}", "\"">>,
    \* ["a","b","c"]
    <<"[", "\"", "a", "\"", ",", "\"", "b", "\"", ",", "\"", "c", "\"", "]">>
}

\* Arrays that the end of the source cuts short: [ [1 [1, [1,_ [[ [[1 [[],
TruncatedDocs == {
    <<"[">>, <<"[", "1">>, <<"[", "1", ",">>, <<"[", "1", ",", " ">>,
    <<"[", "[">>, <<"[", "[", "1">>, <<"[", "[", "]", ",">> }

\* Objects whose first value is no value, so that the value is read again:
\* {"k":x :1} {"k":x ":1} {"k":x "k":1}
RetryDocs == {
    <<"{">> \o Key \o <<"x", " ", ":", "1", "}">>,
    <<"{">> \o Key \o <<"x", " ", Quote, ":", "1", "}">>,
    <<"{">> \o Key \o <<"x", " ">> \o Key \o <<"1", "}">> }

Inputs ==
    WellFormed \cup CommaDocs \cup IdentDocs \cup IdentArrays \cup StrayDocs
    \cup NumberDocs \cup PrefixDocs \cup PairDocs \cup StringDocs
    \cup NestedDocs \cup TruncatedDocs \cup RetryDocs
    \cup Scenarios

-----------------------------------------------------------------------------
(* The emitter: the sink and the functions that write to it *)

\* W: Write is a Vec<u8>, which takes every byte, or a slice &mut [u8] of
\* room bytes, on which write_all copies what fits and then fails.
Vec == [kind |-> "Vec", bytes |-> <<>>, room |-> 0]

Slice(n) == [kind |-> "slice", bytes |-> <<>>, room |-> n]

\* What a function of emit.rs leaves behind: the sink, whether it returned
\* Ok, and whether an unwrap() in a Drop panicked on the way out.
Wrote(d, ok) == [d |-> d, ok |-> ok, panic |-> FALSE]

write_all(d, buf) ==
    IF d.kind = "Vec" THEN Wrote([d EXCEPT !.bytes = @ \o buf], TRUE)
    ELSE IF Len(buf) <= d.room
    THEN Wrote([d EXCEPT !.bytes = @ \o buf, !.room = @ - Len(buf)], TRUE)
    ELSE Wrote([d EXCEPT !.bytes = @ \o SubSeq(buf, 1, d.room), !.room = 0],
               FALSE)

put(d, b) == write_all(d, <<b>>)

\* Emitter::start without its newline
Emitter_start_without_newline(flag, d) == Wrote(d, TRUE)

\* Emitter::start; the flag is set by either branch
Emitter_start(flag, d) == IF ~flag THEN Wrote(d, TRUE) ELSE put(d, "\n")

EmitString_new(d) == put(d, Quote)

EmitArray_new(d) == put(d, "[")

\* EmitArray::start that ignores its flag
EmitArray_start_always_comma(flag, d) == put(d, ",")

\* EmitArray::start
EmitArray_start(flag, d) == IF ~flag THEN Wrote(d, TRUE) ELSE put(d, ",")

EmitObject_new(d) == put(d, "{")

\* EmitObject::start
EmitObject_start(flag, d) == IF ~flag THEN Wrote(d, TRUE) ELSE put(d, ",")

\* Drop for EmitString, EmitArray, EmitObject: put(closer).unwrap()
Closing(kind) ==
    CASE kind = "String" -> Quote
      [] kind = "Array" -> "]"
      [] kind = "Object" -> "}"

\* a Drop that writes nothing
EmitDrop_without_closer(kind, d) == Wrote(d, TRUE)

EmitDrop(kind, d) ==
    [d |-> put(d, Closing(kind)).d, ok |-> TRUE,
     panic |-> ~put(d, Closing(kind)).ok]

\* The values a caller passes to emit(): the types of
\* impl_json_emit_via_string_format with the text Display gives them, a str,
\* and a sequence of values.
Num(ty, text) == [ty |-> ty, text |-> text, items |-> <<>>]

Usize(text) == Num("usize", text)

Str(text) == [ty |-> "str", text |-> text, items |-> <<>>]

VecOf(items) == [ty |-> "Vec", text |-> <<>>, items |-> items]

str_write_to(text, d) ==
    LET q == put(d, Quote) IN
    IF ~q.ok THEN q
    ELSE LET w == write_all(q.d, text) IN
         IF ~w.ok THEN w ELSE put(w.d, Quote)

\* the local EmitArray of a sequence's write_to goes out of scope
seq_drop(r) ==
    [d |-> EmitDrop("Array", r.d).d, ok |-> r.ok,
     panic |-> r.panic \/ EmitDrop("Array", r.d).panic]

RECURSIVE write_to(_, _)
RECURSIVE seq_emit(_, _, _)

\* for val in self { a.emit(val)?; } Ok(())
seq_emit(items, flag, d) ==
    IF items = <<>> THEN Wrote(d, TRUE)
    ELSE LET s == EmitArray_start(flag, d) IN
         IF ~s.ok THEN s
         ELSE LET w == write_to(Head(items), s.d) IN
              IF ~w.ok \/ w.panic THEN w
              ELSE seq_emit(Tail(items), TRUE, w.d)

seq_write_to(items, d) ==
    LET a == EmitArray_new(d) IN
    IF ~a.ok THEN a ELSE seq_drop(seq_emit(items, FALSE, a.d))

write_to(v, d) ==
    CASE v.ty \in {"usize", "u64", "i64", "f64"} -> write_all(d, v.text)
      [] v.ty = "str" -> str_write_to(v.text, d)
      [] v.ty = "Vec" -> seq_write_to(v.items, d)

\* impl Emit for Emitter
Emitter_emit(flag, v, d) ==
    LET s == Emitter_start(flag, d) IN IF ~s.ok THEN s ELSE write_to(v, s.d)

Emitter_string(flag, d) ==
    LET s == Emitter_start(flag, d) IN IF ~s.ok THEN s ELSE EmitString_new(s.d)

Emitter_array(flag, d) ==
    LET s == Emitter_start(flag, d) IN IF ~s.ok THEN s ELSE EmitArray_new(s.d)

Emitter_object(flag, d) ==
    LET s == Emitter_start(flag, d) IN IF ~s.ok THEN s ELSE EmitObject_new(s.d)

\* impl Emit for EmitArray
EmitArray_emit(flag, v, d) ==
    LET s == EmitArray_start(flag, d) IN IF ~s.ok THEN s ELSE write_to(v, s.d)

EmitArray_string(flag, d) ==
    LET s == EmitArray_start(flag, d) IN
    IF ~s.ok THEN s ELSE EmitString_new(s.d)

EmitArray_array(flag, d) ==
    LET s == EmitArray_start(flag, d) IN IF ~s.ok THEN s ELSE EmitArray_new(s.d)

EmitArray_object(flag, d) ==
    LET s == EmitArray_start(flag, d) IN
    IF ~s.ok THEN s ELSE EmitObject_new(s.d)

\* impl EmitObject
emit_key(flag, key, d) ==
    LET s == EmitObject_start(flag, d) IN
    IF ~s.ok THEN s
    ELSE LET k == str_write_to(key, s.d) IN
         IF ~k.ok THEN k ELSE put(k.d, ":")

EmitObject_emit(flag, key, v, d) ==
    LET k == emit_key(flag, key, d) IN IF ~k.ok THEN k ELSE write_to(v, k.d)

EmitObject_emit_array(flag, key, d) ==
    LET k == emit_key(flag, key, d) IN IF ~k.ok THEN k ELSE EmitArray_new(k.d)

EmitObject_emit_object(flag, key, d) ==
    LET k == emit_key(flag, key, d) IN IF ~k.ok THEN k ELSE EmitObject_new(k.d)

\* EmitString::char and EmitString::str
EmitString_str(text, d) == write_all(d, text)

\* A handle the caller holds, and the Emitter itself
Emit(kind) == [kind |-> kind, started |-> FALSE]

NoEmit == Emit("Emitter")

-----------------------------------------------------------------------------
(* The caller: the methods it may call on the handles it holds *)

Session == [pos |-> pos, skips |-> skips, panic |-> FALSE, drained |-> FALSE]

\* The borrow checker: a handle (0: the Parser) whose exclusive borrow is held
\* by a live handle can be neither used nor moved nor dropped.
CanUse(i) == \A j \in 1..Len(handles) : handles[j].owner # i

Held(i, kind) ==
    /\ ~panicked
    /\ i \in 1..Len(handles)
    /\ handles[i].kind = kind
    /\ CanUse(i)

\* A ParseObject::next whose KeyVal would carry the lifetime 'a of the object
\* instead of the borrow of self.
Lifetime_of_object(op, i) ==
    CASE op = "Parser_next" -> 0
      [] op \in {"ParseArray_next", "KeyVal_key"} -> i
      [] op \in {"ParseObject_next", "KeyVal_value", "read_chars"} ->
            handles[i].owner

\* The lifetime in the signature of each method that returns a handle: the
\* borrow of self for next() and key(), the lifetime 'a that self itself
\* holds for value(self) and read_chars(self).
Lifetime(op, i) ==
    CASE op = "Parser_next" -> 0
      [] op \in {"ParseArray_next", "ParseObject_next", "KeyVal_key"} -> i
      [] op \in {"KeyVal_value", "read_chars"} -> handles[i].owner

RemoveAt(hs, i) ==
    [j \in 1..(Len(hs) - 1) |->
        LET h == IF j < i THEN hs[j] ELSE hs[j + 1] IN
        [h EXCEPT !.owner = IF @ > i THEN @ - 1 ELSE @]]

\* The handle the caller receives in a result, if it is one.
Receive(hs, res, owner) ==
    IF res.kind \in HandleKinds
    THEN Append(hs, Handle(res.kind, owner, res.at))
    ELSE hs

ParserHandle == Handle("Parser", 0, 0)

\* The history of what a next() has returned; a None after a None is not
\* recorded again.
Record(y, res) ==
    IF res.kind = "None" /\ y # <<>> /\ y[Len(y)].kind = "None" THEN y
    ELSE Append(y, res)

\* No drain is under way.
Idle == [op |-> "none", idx |-> 0, pos0 |-> 0, skips0 |-> <<>>]

\* The return of a call that began at offset pos0 with the jobs skips0 pending
ReturnFrom(op, i, h, s, res, hs, pos0, skips0) ==
    /\ pos' = s.pos
    /\ skips' = s.skips
    /\ panicked' = s.panic
    /\ handles' = hs
    /\ yielded' = IF op = "Parser_next" THEN Record(yielded, res) ELSE yielded
    /\ last' = [op |-> op, idx |-> i, h |-> h, res |-> res,
                pos0 |-> pos0, skips0 |-> skips0, drained |-> s.drained]
    /\ running' = Idle
    /\ stack' = <<>>
    /\ UNCHANGED input
    /\ UNCHANGED evars

Return(op, i, h, s, res, hs) == ReturnFrom(op, i, h, s, res, hs, pos, skips)

Returned(op, i, r, hs) ==
    Return(op, i, IF i = 0 THEN ParserHandle ELSE handles[i], r.s, r.res,
           Receive(hs, r.res, Lifetime(op, i)))

ReturnedSelf(op, i, r) ==
    Returned(op, i, r,
             [handles EXCEPT ![i] = [r.h EXCEPT !.yielded = Record(@, r.res)]])

\* Parser::new(input)
NewParser(t) ==
    /\ input = t
    /\ pos = 0
    /\ skips = <<>>
    /\ handles = <<>>
    /\ yielded = <<>>
    /\ last = [op |-> "new", idx |-> 0, h |-> ParserHandle, res |-> NoneRes,
               pos0 |-> 0, skips0 |-> <<>>, drained |-> FALSE]
    /\ running = Idle
    /\ stack = <<>>

\* Emitter::new(sink)
NewEmitter(sink) ==
    /\ dst = sink
    /\ started = FALSE
    /\ emits = <<>>
    /\ elog = <<>>
    /\ refused = FALSE
    /\ elast = [op |-> "new", ok |-> TRUE, bytes0 |-> <<>>, h |-> NoEmit]

Init ==
    /\ \E t \in Inputs : NewParser(t)
    /\ NewEmitter(Vec)
    /\ panicked = FALSE

ParserNext ==
    /\ ~panicked
    /\ CanUse(0)
    /\ Returned("Parser_next", 0, Parser_next(Session), handles)

ArrayNext(i) ==
    /\ Held(i, "Array")
    /\ ReturnedSelf("ParseArray_next", i, ParseArray_next(handles[i], Session))

ObjectNext(i) ==
    /\ Held(i, "Object")
    /\ ReturnedSelf("ParseObject_next", i, ParseObject_next(handles[i], Session))

\* KeyVal::key without its assertion
KeyValKey_unchecked(i) ==
    /\ Held(i, "KeyVal")
    /\ Return("KeyVal_key", i, handles[i], Session,
              [Res("String", "", <<>>) EXCEPT !.at = handles[i].start],
              Append([handles EXCEPT ![i].key_consumed = TRUE],
                     Handle("String", Lifetime("KeyVal_key", i),
                            handles[i].start)))

KeyValKey(i) ==
    /\ Held(i, "KeyVal")
    /\ IF handles[i].key_consumed
       THEN Return("KeyVal_key", i, handles[i], Panic(Session), PanicRes, handles)
       ELSE Return("KeyVal_key", i, handles[i], Session,
                   [Res("String", "", <<>>) EXCEPT !.at = handles[i].start],
                   Append([handles EXCEPT ![i].key_consumed = TRUE],
                          Handle("String", Lifetime("KeyVal_key", i),
                                 handles[i].start)))

KeyValValue(i) ==
    /\ Held(i, "KeyVal")
    /\ Returned("KeyVal_value", i, KeyVal_value(handles[i], Session),
                RemoveAt(handles, i))

ReadInto(i) ==
    /\ Held(i, "String")
    /\ LET r == ParseString_read_into(Session, <<>>) IN
       Return("read_into", i, handles[i], r.s, r.res, RemoveAt(handles, i))

ReadOwned(i) ==
    /\ Held(i, "String")
    /\ LET r == ParseString_read_owned(Session) IN
       Return("read_owned", i, handles[i], r.s, r.res, RemoveAt(handles, i))

ReadChars(i) ==
    /\ Held(i, "String")
    /\ Return("read_chars", i, handles[i], Session,
              [Res("Chars", "", <<>>) EXCEPT !.at = handles[i].start],
              Append(RemoveAt(handles, i),
                     Handle("Chars", Lifetime("read_chars", i), handles[i].start)))

CharsNext(i) ==
    /\ Held(i, "Chars")
    /\ \E overflow_checks \in BOOLEAN :
          LET r == ParseChars_next(Session, overflow_checks) IN
          Return("ParseChars_next", i, handles[i], r.s, r.res, handles)

DropHandle(i) ==
    /\ ~panicked
    /\ i \in 1..Len(handles)
    /\ CanUse(i)
    /\ Return("drop", i, handles[i], Drop(handles[i], Session), NoneRes,
              RemoveAt(handles, i))

Next ==
    \/ ParserNext
    \/ \E i \in 1..Len(handles) : ArrayNext(i)
    \/ \E i \in 1..Len(handles) : ObjectNext(i)
    \/ \E i \in 1..Len(handles) : KeyValKey(i)
    \/ \E i \in 1..Len(handles) : KeyValValue(i)
    \/ \E i \in 1..Len(handles) : ReadInto(i)
    \/ \E i \in 1..Len(handles) : ReadOwned(i)
    \/ \E i \in 1..Len(handles) : ReadChars(i)
    \/ \E i \in 1..Len(handles) : CharsNext(i)
    \/ \E i \in 1..Len(handles) : DropHandle(i)

Spec == Init /\ [][Next]_vars

-----------------------------------------------------------------------------
(* The drain, one turn of a loop at a time *)

\* One turn of the loop of ParseArray::next and of ParseObject::next: the
\* handle and the session it leaves, what next() returns if the turn ends the
\* call, and whether the loop goes round again.
Turn(h, s, res, again) == [h |-> h, s |-> s, res |-> res, again |-> again]

element_turn(h, v) == Turn(h, v.s, v.res, FALSE)

\* an array_turn whose MissingComma branch would leave needs_comma set
array_turn_keeping_needs_comma(h, s) ==
    LET b == peek_byte(s)
        eaten == next_byte(s).s
    IN  CASE b = None -> Turn(h, s, NoneRes, FALSE)
          [] b = "]" -> Turn([h EXCEPT !.ended = TRUE], eaten, NoneRes, FALSE)
          [] b = "," ->
                IF h.needs_comma
                THEN Turn([h EXCEPT !.needs_comma = FALSE], eaten, NoneRes, TRUE)
                ELSE Turn(h, eaten, Err("TrailingComma"), FALSE)
          [] is_ascii_whitespace(b) -> Turn(h, eaten, NoneRes, TRUE)
          [] OTHER ->
                IF h.needs_comma
                THEN Turn(h, s, Err("MissingComma"), FALSE)
                ELSE element_turn([h EXCEPT !.needs_comma = TRUE],
                                  next_any_item(b, eaten))

array_turn(h, s) ==
    LET b == peek_byte(s)
        eaten == next_byte(s).s
    IN  CASE b = None -> Turn(h, s, NoneRes, FALSE)
          [] b = "]" -> Turn([h EXCEPT !.ended = TRUE], eaten, NoneRes, FALSE)
          [] b = "," ->
                IF h.needs_comma
                THEN Turn([h EXCEPT !.needs_comma = FALSE], eaten, NoneRes, TRUE)
                ELSE Turn(h, eaten, Err("TrailingComma"), FALSE)
          [] is_ascii_whitespace(b) -> Turn(h, eaten, NoneRes, TRUE)
          [] OTHER ->
                IF h.needs_comma
                THEN Turn([h EXCEPT !.needs_comma = FALSE], s,
                          Err("MissingComma"), FALSE)
                ELSE element_turn([h EXCEPT !.needs_comma = TRUE],
                                  next_any_item(b, eaten))

object_turn(h, s) ==
    LET b == peek_byte(s)
        eaten == next_byte(s).s
    IN  CASE b = None -> Turn(h, s, NoneRes, FALSE)
          [] is_ascii_whitespace(b) \/ b = "," -> Turn(h, eaten, NoneRes, TRUE)
          [] b = "}" -> Turn([h EXCEPT !.ended = TRUE], eaten, NoneRes, FALSE)
          [] b = "\"" -> Turn(h, eaten, Res("KeyVal", "", <<>>), FALSE)
          [] OTHER -> Turn(h, Panic(s), PanicRes, FALSE)

\* A loop that has not finished: the for loop of do_skips with the jobs it
\* has still to run; while p.next().is_some() {} of skip_array, skip_obj and
\* skip_obj_value, about to call p.next() or inside the loop of that call;
\* the loop of skip_obj_value that reads the value again after an error.
Frame(f, jobs, h, phase, key_consumed) ==
    [f |-> f, jobs |-> jobs, h |-> h, phase |-> phase,
     key_consumed |-> key_consumed]

ForSkip(jobs) == Frame("do_skips", jobs, ParseArray_new, "", FALSE)

WhileNext(h, phase) == Frame("while_next", <<>>, h, phase, FALSE)

ReadAgain(key_consumed) ==
    Frame("skip_obj_value", <<>>, ParseArray_new, "", key_consumed)

Machine(st, s) == [stack |-> st, s |-> s]

Pop(st) == SubSeq(st, 1, Len(st) - 1)

\* for skip in skips { match skip { ... } }
for_turn(below, jobs, s) ==
    IF jobs = <<>> THEN Machine(below, s)
    ELSE CASE Head(jobs).kind = "String" ->
                Machine(Append(below, ForSkip(Tail(jobs))), skip_string(s))
           [] Head(jobs).kind = "Array" ->
                Machine(below \o <<ForSkip(Tail(jobs)),
                                   WhileNext(ParseArray_new, "call")>>, s)
           [] Head(jobs).kind = "Object" ->
                Machine(below \o <<ForSkip(Tail(jobs)),
                                   WhileNext(ParseObject_new, "call")>>, s)
           [] Head(jobs).kind = "ObjectValue" ->
                Machine(below \o <<ForSkip(Tail(jobs)),
                                   ReadAgain(Head(jobs).key_consumed)>>, s)

\* p.next() up to its loop: the early return, then do_skips
call_turn(below, h, s) ==
    IF h.ended THEN Machine(below, s)
    ELSE IF s.skips = <<>> THEN Machine(Append(below, WhileNext(h, "loop")), s)
    ELSE Machine(below \o <<WhileNext(h, "loop"), ForSkip(s.skips)>>,
                 [s EXCEPT !.skips = <<>>])

\* what while p.next().is_some() {} does with the turn t of p.next()
loop_turn(below, t) ==
    IF t.s.panic THEN Machine(below, t.s)
    ELSE IF t.again THEN Machine(Append(below, WhileNext(t.h, "loop")), t.s)
    ELSE IF t.res.kind = "None" THEN Machine(below, Drop(t.h, t.s))
    ELSE Machine(Append(below, WhileNext(t.h, "call")), DropRes(t.res, t.s))

while_turn(below, top, s) ==
    IF top.phase = "call" THEN call_turn(below, top.h, s)
    ELSE IF top.h.kind = "Array" THEN loop_turn(below, array_turn(top.h, s))
    ELSE loop_turn(below, object_turn(top.h, s))

\* loop { if let Ok(v) = read_value(parse, key_consumed) { break v; } } and
\* the match on v
read_turn(below, key_consumed, r) ==
    CASE r.s.panic -> Machine(below, r.s)
      [] ~r.s.panic /\ r.res.kind = "Err" ->
            Machine(Append(below, ReadAgain(key_consumed)), r.s)
      [] ~r.s.panic /\ r.res.kind = "String" ->
            Machine(below, Drop(Handle("String", 0, 0), skip_string(r.s)))
      [] ~r.s.panic /\ r.res.kind = "Array" ->
            Machine(Append(below, WhileNext(ParseArray_new, "call")), r.s)
      [] ~r.s.panic /\ r.res.kind = "Object" ->
            Machine(Append(below, WhileNext(ParseObject_new, "call")), r.s)
      [] OTHER -> Machine(below, r.s)

\* one turn of the innermost loop
turn(st, s) ==
    CASE st[Len(st)].f = "do_skips" -> for_turn(Pop(st), st[Len(st)].jobs, s)
      [] st[Len(st)].f = "while_next" -> while_turn(Pop(st), st[Len(st)], s)
      [] st[Len(st)].f = "skip_obj_value" ->
            read_turn(Pop(st), st[Len(st)].key_consumed,
                      read_value(s, st[Len(st)].key_consumed))

Busy == running.op # "none" /\ ~panicked

\* parse.do_skips() of a next(): the queue is taken
Begin(op, i) ==
    /\ ~panicked
    /\ running = Idle
    /\ skips # <<>>
    /\ CanUse(i)
    /\ running' = [op |-> op, idx |-> i, pos0 |-> pos, skips0 |-> skips]
    /\ stack' = <<ForSkip(skips)>>
    /\ skips' = <<>>
    /\ UNCHANGED <<input, pos, panicked, handles, yielded, last>>
    /\ UNCHANGED evars

BeginParserNext == Begin("Parser_next", 0)

BeginArrayNext(i) ==
    /\ Held(i, "Array")
    /\ ~handles[i].ended
    /\ Begin("ParseArray_next", i)

BeginObjectNext(i) ==
    /\ Held(i, "Object")
    /\ ~handles[i].ended
    /\ Begin("ParseObject_next", i)

Moved(m) ==
    /\ pos' = m.s.pos
    /\ skips' = m.s.skips
    /\ panicked' = m.s.panic
    /\ stack' = m.stack
    /\ UNCHANGED <<input, handles, yielded, last, running>>
    /\ UNCHANGED evars

DrainTurn ==
    /\ Busy
    /\ stack # <<>>
    /\ Moved(turn(stack, Session))

Drained == [Session EXCEPT !.drained = TRUE]

Finished(op, i, h, r, hs) ==
    ReturnFrom(op, i, h, r.s, r.res, Receive(hs, r.res, Lifetime(op, i)),
               running.pos0, running.skips0)

FinishedSelf(op, i, r) ==
    Finished(op, i, handles[i], r,
             [handles EXCEPT ![i] = [r.h EXCEPT !.yielded = Record(@, r.res)]])

\* the rest of the next() once its drain has returned
Finish ==
    /\ Busy
    /\ stack = <<>>
    /\ CASE running.op = "Parser_next" ->
                Finished("Parser_next", 0, ParserHandle, after_skips(Drained),
                         handles)
         [] running.op = "ParseArray_next" ->
                FinishedSelf("ParseArray_next", running.idx,
                             ParseArray_loop(handles[running.idx], Drained))
         [] running.op = "ParseObject_next" ->
                FinishedSelf("ParseObject_next", running.idx,
                             ParseObject_loop(handles[running.idx], Drained))

\* a call that starts no drain, or one whose drain has nothing to do
Direct ==
    \/ skips = <<>> /\ ParserNext
    \/ \E i \in 1..Len(handles) :
          (skips = <<>> \/ handles[i].ended) /\ ArrayNext(i)
    \/ \E i \in 1..Len(handles) :
          (skips = <<>> \/ handles[i].ended) /\ ObjectNext(i)
    \/ \E i \in 1..Len(handles) : KeyValKey(i)
    \/ \E i \in 1..Len(handles) : KeyValValue(i)
    \/ \E i \in 1..Len(handles) : ReadInto(i)
    \/ \E i \in 1..Len(handles) : ReadOwned(i)
    \/ \E i \in 1..Len(handles) : ReadChars(i)
    \/ \E i \in 1..Len(handles) : CharsNext(i)
    \/ \E i \in 1..Len(handles) : DropHandle(i)

StepNext ==
    \/ running = Idle /\ Direct
    \/ BeginParserNext
    \/ \E i \in 1..Len(handles) : BeginArrayNext(i)
    \/ \E i \in 1..Len(handles) : BeginObjectNext(i)
    \/ DrainTurn
    \/ Finish

\* What a turn changes of the session and of the loops
Changes(m) ==
    <<m.s.pos, m.s.skips, m.s.panic, m.stack>> # <<pos, skips, panicked, stack>>

\* A next() under way can always go on. Inside its drain the turn of the
\* innermost loop changes the state, so DrainTurn is enabled; after its drain
\* it is one of the three calls that drain, on a handle that is still held,
\* and Finish, which leaves running Idle, is enabled.
Productive ==
    Busy =>
        IF stack # <<>> THEN Changes(turn(stack, Session))
        ELSE \/ running.op = "Parser_next"
             \/ /\ running.op \in {"ParseArray_next", "ParseObject_next"}
                /\ running.idx \in 1..Len(handles)

\* Code runs on: a drain that can take a turn takes it, and a next() whose
\* drain has returned goes on to return. These are WF_vars(DrainTurn) and
\* WF_vars(Finish), with ENABLED <<DrainTurn>>_vars and ENABLED <<Finish>>_vars
\* written as the state predicates that Productive shows them to be.
DrainRunsOn == ([]<>~(Busy /\ stack # <<>>)) \/ ([]<><<DrainTurn>>_vars)

FinishRunsOn == ([]<>~(Busy /\ stack = <<>>)) \/ ([]<><<Finish>>_vars)

StepSpec == Init /\ [][StepNext]_vars /\ DrainRunsOn /\ FinishRunsOn

-----------------------------------------------------------------------------
(* The caller of the emitter: the methods of the innermost live handle *)

MaxCalls == 5

MaxRoom == 5

Sinks == {Vec} \cup {Slice(n) : n \in 0..MaxRoom}

EmitValues ==
    {Usize(<<"3">>), Str(<<"a">>), VecOf(<<Usize(<<"1">>), Usize(<<"2">>)>>)}

EmitKeys == {<<"k">>}

EmitTexts == {<<"a", "b">>}

\* One entry of elog, a call that returned Ok: a value, with its key in an
\* object; the opening of a handle, likewise; a text put in a string; a drop
Tok(t, kind, keyed, key, v) ==
    [t |-> t, kind |-> kind, keyed |-> keyed, key |-> key, v |-> v]

ValueCall(key, v) == Tok("value", "", key # <<>>, key, v)

OpenCall(kind, key) == Tok("open", kind, key # <<>>, key, Str(<<>>))

Top == emits[Len(emits)]

\* The borrow checker: every handle holds the exclusive borrow of the one it
\* was made from, so only the innermost can be used or dropped.
Innermost(kind) ==
    /\ ~panicked
    /\ Len(elog) < MaxCalls
    /\ IF kind = "Emitter" THEN emits = <<>>
       ELSE emits # <<>> /\ Top.kind = kind

Start == [emits EXCEPT ![Len(emits)].started = TRUE]

EmitReturn(op, h, r, flag, hs, new, tok) ==
    /\ dst' = r.d
    /\ started' = flag
    /\ panicked' = r.panic
    /\ emits' = IF new # "" /\ r.ok THEN Append(hs, Emit(new)) ELSE hs
    /\ elog' = IF r.ok /\ ~r.panic THEN Append(elog, tok) ELSE elog
    /\ refused' = (refused \/ ~r.ok \/ r.panic)
    /\ elast' = [op |-> op, ok |-> r.ok /\ ~r.panic, bytes0 |-> dst.bytes,
                 h |-> h]
    /\ UNCHANGED pvars

EmitInit ==
    /\ NewParser(<<>>)
    /\ \E sink \in Sinks : NewEmitter(sink)
    /\ panicked = FALSE

EmitterEmit(v) ==
    /\ Innermost("Emitter")
    /\ EmitReturn("emit", NoEmit, Emitter_emit(started, v, dst), TRUE, emits,
                  "", ValueCall(<<>>, v))

EmitterString ==
    /\ Innermost("Emitter")
    /\ EmitReturn("string", NoEmit, Emitter_string(started, dst), TRUE, emits,
                  "String", OpenCall("String", <<>>))

EmitterArray ==
    /\ Innermost("Emitter")
    /\ EmitReturn("array", NoEmit, Emitter_array(started, dst), TRUE, emits,
                  "Array", OpenCall("Array", <<>>))

EmitterObject ==
    /\ Innermost("Emitter")
    /\ EmitReturn("object", NoEmit, Emitter_object(started, dst), TRUE, emits,
                  "Object", OpenCall("Object", <<>>))

ArrayEmit(v) ==
    /\ Innermost("Array")
    /\ EmitReturn("emit", Top, EmitArray_emit(Top.started, v, dst), started,
                  Start, "", ValueCall(<<>>, v))

ArrayString ==
    /\ Innermost("Array")
    /\ EmitReturn("string", Top, EmitArray_string(Top.started, dst), started,
                  Start, "String", OpenCall("String", <<>>))

ArrayArray ==
    /\ Innermost("Array")
    /\ EmitReturn("array", Top, EmitArray_array(Top.started, dst), started,
                  Start, "Array", OpenCall("Array", <<>>))

ArrayObject ==
    /\ Innermost("Array")
    /\ EmitReturn("object", Top, EmitArray_object(Top.started, dst), started,
                  Start, "Object", OpenCall("Object", <<>>))

ObjectEmit(key, v) ==
    /\ Innermost("Object")
    /\ EmitReturn("emit", Top, EmitObject_emit(Top.started, key, v, dst),
                  started, Start, "", ValueCall(key, v))

ObjectEmitArray(key) ==
    /\ Innermost("Object")
    /\ EmitReturn("emit_array", Top,
                  EmitObject_emit_array(Top.started, key, dst), started, Start,
                  "Array", OpenCall("Array", key))

ObjectEmitObject(key) ==
    /\ Innermost("Object")
    /\ EmitReturn("emit_object", Top,
                  EmitObject_emit_object(Top.started, key, dst), started,
                  Start, "Object", OpenCall("Object", key))

StringStr(text) ==
    /\ Innermost("String")
    /\ EmitReturn("str", Top, EmitString_str(text, dst), started, emits, "",
                  Tok("text", "String", FALSE, <<>>, Str(text)))

DropEmit ==
    /\ ~panicked
    /\ emits # <<>>
    /\ EmitReturn("drop", Top, EmitDrop(Top.kind, dst), started,
                  SubSeq(emits, 1, Len(emits) - 1), "", Tok("close", Top.kind, FALSE, <<>>, Str(<<>>)))

EmitNext ==
    \/ \E v \in EmitValues : EmitterEmit(v)
    \/ EmitterString
    \/ EmitterArray
    \/ EmitterObject
    \/ \E v \in EmitValues : ArrayEmit(v)
    \/ ArrayString
    \/ ArrayArray
    \/ ArrayObject
    \/ \E key \in EmitKeys, v \in EmitValues : ObjectEmit(key, v)
    \/ \E key \in EmitKeys : ObjectEmitArray(key)
    \/ \E key \in EmitKeys : ObjectEmitObject(key)
    \/ \E text \in EmitTexts : StringStr(text)
    \/ DropEmit

EmitSpec == EmitInit /\ [][EmitNext]_vars

-----------------------------------------------------------------------------
(* The lexical structure of a well-formed input, read off the text alone *)

\* the index of the quote that closes the string whose content begins at j
RECURSIVE RefQuote(_, _)
RefQuote(t, j) == IF j > Len(t) \/ t[j] = Quote THEN j ELSE RefQuote(t, j + 1)

\* the index of the bracket that closes the depth-th open bracket, from j on
RECURSIVE RefClose(_, _, _)
RefClose(t, j, depth) ==
    IF j > Len(t) THEN j
    ELSE IF t[j] = Quote THEN RefClose(t, RefQuote(t, j + 1) + 1, depth)
    ELSE IF t[j] \in {"[", "{"} THEN RefClose(t, j + 1, depth + 1)
    ELSE IF t[j] \in {"]", "}"}
         THEN IF depth = 1 THEN j ELSE RefClose(t, j + 1, depth - 1)
    ELSE RefClose(t, j + 1, depth)

\* the index of the last byte of the scalar that begins at j
RECURSIVE RefScalar(_, _)
RefScalar(t, j) ==
    IF j + 1 > Len(t) \/ t[j + 1] \in {",", "]", "}", " "} THEN j
    ELSE RefScalar(t, j + 1)

\* the index of the last byte of the value whose first byte is at index j
RefEnd(t, j) ==
    IF t[j] \in {"[", "{"} THEN RefClose(t, j + 1, 1)
    ELSE IF t[j] = Quote THEN RefQuote(t, j + 1)
    ELSE RefScalar(t, j)

RefKind(b) ==
    CASE b = "[" -> "Array" [] b = "{" -> "Object" [] b = Quote -> "String"
      [] b = "n" -> "Null" [] b \in {"t", "f"} -> "Bool" [] OTHER -> "Number"

\* The siblings from index j on, each with its kind, the offset of its first
\* byte and the index of its last byte; in an object a sibling is a key-value
\* pair, which begins at the quote of its key.
RECURSIVE RefSiblings(_, _, _)
RefSiblings(t, j, in_object) ==
    IF j > Len(t) \/ t[j] \in {"]", "}"} THEN <<>>
    ELSE LET e == IF in_object THEN RefEnd(t, RefQuote(t, j + 1) + 2)
                  ELSE RefEnd(t, j)
         IN  <<[kind |-> IF in_object THEN "KeyVal" ELSE RefKind(t[j]),
                at |-> j - 1, end |-> e]>>
             \o (IF e + 1 <= Len(t) /\ t[e + 1] \in {",", " "}
                 THEN RefSiblings(t, e + 2, in_object) ELSE <<>>)

\* the children of the parent a next() was called on: the top-level values
\* for the Parser (handle 0), the elements or pairs of an array or object
RefChildren(kind, start) ==
    IF kind = "Parser" THEN RefSiblings(input, 1, FALSE)
    ELSE RefSiblings(input, start + 2, kind = "Object")

\* a returned value is the child c
IsChild(res, c) == res.kind = c.kind /\ res.at = c.at

NextOps == {"Parser_next", "ParseArray_next", "ParseObject_next"}

\* what the parent of the last operation has returned so far, and the parent
\* as the operation left it
LastYielded == IF last.idx = 0 THEN yielded ELSE handles[last.idx].yielded

LastParent == IF last.idx = 0 THEN ParserHandle ELSE handles[last.idx]

-----------------------------------------------------------------------------
(* Drop safety *)

\* The case of drop safety: a next() on a parent whose previously returned
\* child k of cs was a sub-parser that has been dropped, with its skip pending.
AfterDrop(y, cs, k) ==
    /\ last.op \in NextOps
    /\ input \in WellFormed
    /\ last.skips0 # <<>>
    /\ Len(y) >= 2
    /\ y[Len(y) - 1].kind \in HandleKinds
    /\ k \in 1..Len(cs)
    /\ IsChild(y[Len(y) - 1], cs[k])

\* C1: on a well-formed input, the next() on a parent that follows the drop
\* of the sub-parser it returned last yields the lexically next sibling of the
\* dropped value, or None at the parent's terminator if there is no sibling.
C1_DropSafety ==
    \A k \in 1..Len(input) :
        AfterDrop(LastYielded, RefChildren(last.h.kind, last.h.start), k) =>
            /\ ~panicked
            /\ IF k < Len(RefChildren(last.h.kind, last.h.start))
               THEN IsChild(LastYielded[Len(LastYielded)],
                            RefChildren(last.h.kind, last.h.start)[k + 1])
               ELSE /\ LastYielded[Len(LastYielded)].kind = "None"
                    /\ last.idx # 0 => LastParent.ended

-----------------------------------------------------------------------------
(* Draining and dropping *)

ConsumingOps ==
    NextOps \cup {"KeyVal_value", "read_into", "read_owned", "ParseChars_next"}

\* C2: an operation that consumes bytes while a skip job is pending has first
\* drained the skip queue.
C2_DrainBeforeRead ==
    (last.op \in ConsumingOps /\ last.skips0 # <<>> /\ pos > last.pos0)
        => last.drained

DropKinds == {"String", "Array", "Object", "KeyVal"}

\* the job a dropped handle leaves behind
JobOf(h) ==
    CASE h.kind = "String" -> SkipString
      [] h.kind = "Array" -> SkipArray
      [] h.kind = "Object" -> SkipObject
      [] h.kind = "KeyVal" -> SkipObjectValue(h.key_consumed)

\* C3: the drop of a ParseString, ParseArray, ParseObject or KeyVal leaves the
\* position of the byte source unchanged; it appends one job to the skip
\* queue if the handle had not reached its terminator, and nothing if it had.
C3_DropNeverAdvances ==
    (last.op = "drop" /\ last.h.kind \in DropKinds) =>
        /\ pos = last.pos0
        /\ ~panicked
        /\ skips = IF last.h.ended THEN last.skips0
                   ELSE Append(last.skips0, JobOf(last.h))

\* an unfinished handle is dropped onto a queue that already holds a job
C3_Witness ==
    /\ last.op = "drop"
    /\ last.h.kind \in {"Array", "Object"}
    /\ ~last.h.ended
    /\ last.skips0 # <<>>
    /\ Len(skips) = Len(last.skips0) + 1

-----------------------------------------------------------------------------
(* The cursor singleton *)

\* C4: exactly one handle of the parser's handle tree can be used, the
\* innermost live one, and a next() was called on its parent only when no
\* handle obtained from that parent was live.
C4_CursorSingleton ==
    /\ \A i \in 0..Len(handles) : CanUse(i) <=> i = Len(handles)
    /\ \A j \in 1..Len(handles) : handles[j].owner = j - 1
    /\ last.op \in NextOps =>
         Len(handles) = last.idx + (IF last.res.kind \in HandleKinds THEN 1 ELSE 0)

\* a KeyVal is live under its ParseObject, which is live under a ParseArray
C4_Witness ==
    /\ Len(handles) = 3
    /\ handles[1].kind = "Array"
    /\ handles[2].kind = "Object"
    /\ handles[3].kind = "KeyVal"
    /\ last.op = "ParseObject_next"

-----------------------------------------------------------------------------
(* Parser.next() *)

\* the k-th value Parser.next() returned is the k-th of the children cs, with
\* the text of the source if it is a number, and None after the last of them
InOrder(y, cs) ==
    \A k \in 1..Len(y) :
        IF k <= Len(cs)
        THEN /\ IsChild(y[k], cs[k])
             /\ y[k].kind = "Number" =>
                    y[k].text = SubSeq(input, cs[k].at + 1, cs[k].end)
        ELSE y[k].kind = "None"

\* C5: on a sequence of well-formed values separated by whitespace, the
\* successive calls of Parser.next() return the values in source order, one
\* per call, and None after the last.
C5_TopLevelOrder ==
    input \in WellFormed \cup {Basics} =>
        InOrder(yielded, RefChildren("Parser", 0))

\* C6: on a well-formed input a call of Parser.next() that returns a value
\* has consumed at least one byte, and no operation moves the position back.
C6_ForwardProgress ==
    /\ pos >= last.pos0
    /\ (input \in WellFormed /\ last.op = "Parser_next" /\ ~panicked) =>
          (last.res.kind = "None" \/ pos > last.pos0)

\* Parser.next() returns the second top-level value after draining a skip
C6_Witness ==
    /\ input \in WellFormed
    /\ last.op = "Parser_next"
    /\ last.skips0 # <<>>
    /\ last.res.kind = "Number"
    /\ Len(yielded) = 2

-----------------------------------------------------------------------------
(* Commas in arrays *)

Expected(kind, val, at) == [kind |-> kind, val |-> val, at |-> at]

\* What the next() calls on the array should return for the bytes from index
\* j on, by the rules for commas: an element that follows an element without
\* a comma is announced by a MissingComma; a comma that follows an element
\* separates; every other comma is a TrailingComma.
RECURSIVE ExpectArray(_, _, _)
ExpectArray(t, j, after_element) ==
    IF j > Len(t) \/ t[j] = "]" THEN <<>>
    ELSE IF t[j] = " " THEN ExpectArray(t, j + 1, after_element)
    ELSE IF t[j] = ","
         THEN (IF after_element THEN <<>>
               ELSE <<Expected("Err", "TrailingComma", j - 1)>>)
              \o ExpectArray(t, j + 1, FALSE)
    ELSE (IF after_element THEN <<Expected("Err", "MissingComma", j - 1)>>
          ELSE <<>>)
         \o <<Expected(RefKind(t[j]), "", j - 1)>>
         \o ExpectArray(t, RefEnd(t, j) + 1, TRUE)

Expects(es, val) == \E k \in 1..Len(es) : es[k].val = val

\* what the array has returned so far is a prefix of es, then None
AsExpected(y, es) ==
    \A k \in 1..Len(y) :
        IF k <= Len(es)
        THEN /\ y[k].kind = es[k].kind
             /\ y[k].at = es[k].at
             /\ y[k].kind = "Err" => y[k].val = es[k].val
        ELSE y[k].kind = "None"

\* the top-level array of a CommaDocs input is held
TopArray ==
    /\ input \in CommaDocs
    /\ handles # <<>>
    /\ handles[1].kind = "Array"

\* C7: in an array where two elements are separated only by whitespace,
\* next() returns the first element, then MissingComma once with no byte of
\* the second element consumed, then the second element, and the rest of the
\* array as usual.
C7_MissingCommaRecovery ==
    (TopArray /\ Expects(ExpectArray(input, 2, FALSE), "MissingComma")) =>
        /\ AsExpected(handles[1].yielded, ExpectArray(input, 2, FALSE))
        /\ (last.op = "ParseArray_next" /\ last.idx = 1
            /\ last.res.val = "MissingComma") => pos = last.res.at

\* C8: in an array with a leading comma or a comma after a comma, next()
\* returns one TrailingComma for each such comma and still returns the
\* elements in order.
C8_RepeatedCommaRecovery ==
    (TopArray /\ Expects(ExpectArray(input, 2, FALSE), "TrailingComma")) =>
        AsExpected(handles[1].yielded, ExpectArray(input, 2, FALSE))

\* the offset of the last byte before j that is not a space
RECURSIVE BackOverSpaces(_, _)
BackOverSpaces(t, j) ==
    IF j > 1 /\ t[j] = " " THEN BackOverSpaces(t, j - 1) ELSE j

\* the array ends with an element, a comma and the closing bracket
EndsWithComma(t) ==
    /\ t[BackOverSpaces(t, Len(t) - 1)] = ","
    /\ t[BackOverSpaces(t, BackOverSpaces(t, Len(t) - 1) - 1)] \notin {",", "["}

\* C9: when the last element of an array is followed by a comma and then the
\* closing bracket, next() returns TrailingComma before it returns None at
\* the bracket.
C9_TrailingCommaReported ==
    (TopArray /\ EndsWithComma(input) /\ handles[1].ended) =>
        \E k \in 1..Len(handles[1].yielded) :
            /\ handles[1].yielded[k].kind = "Err"
            /\ handles[1].yielded[k].val = "TrailingComma"
            /\ handles[1].yielded[k].at = BackOverSpaces(input, Len(input) - 1) - 1

-----------------------------------------------------------------------------
(* Unknown identifiers *)

\* the length of the identifier an IdentDocs input begins with
RECURSIVE IdentLen(_, _)
IdentLen(t, n) == IF t[n + 1] = " " THEN n ELSE IdentLen(t, n + 1)

\* C10: for an unknown identifier, a space and a value, the first call of
\* Parser.next() returns InvalidIdentifier and has consumed no byte beyond
\* the space, and the second call returns the value.
C10_IdentifierRunSkip ==
    input \in IdentDocs =>
        /\ Len(yielded) >= 1 =>
              /\ yielded[1].kind = "Err"
              /\ yielded[1].val = "InvalidIdentifier"
        /\ Len(yielded) = 1 => pos <= IdentLen(input, 0) + 1
        /\ Len(yielded) >= 2 =>
              IsChild(yielded[2],
                      [kind |-> RefKind(input[IdentLen(input, 0) + 2]),
                       at |-> IdentLen(input, 0) + 1])

-----------------------------------------------------------------------------
(* Errors do not end the parent *)

\* the offset of the element 1 of an IdentArrays input, if it has one
HasSecond(t) == t[Len(t) - 1] = "1"

\* C11: after ParseArray.next() has returned InvalidIdentifier for an unknown
\* identifier, also one written directly before ',' or ']', the later calls
\* return the element that follows, if there is one, and then None at the
\* closing bracket.
C11_ErrorKeepsParent ==
    (input \in IdentArrays /\ handles # <<>> /\ handles[1].kind = "Array") =>
        \A k \in 1..Len(handles[1].yielded) :
            CASE k = 1 ->
                    /\ handles[1].yielded[k].kind = "Err"
                    /\ handles[1].yielded[k].val = "InvalidIdentifier"
              [] k = 2 /\ HasSecond(input) ->
                    /\ handles[1].yielded[k].kind = "Number"
                    /\ handles[1].yielded[k].at = Len(input) - 2
              [] OTHER ->
                    /\ handles[1].yielded[k].kind = "None"
                    /\ handles[1].ended

-----------------------------------------------------------------------------
(* Bytes that begin no value *)

\* the offset of the stray byte of a StrayDocs input
StrayAt(t) == IF t[1] = "[" /\ Len(t) = 3 THEN 1 ELSE 0

\* the last operation was a next() with no skip pending that took the byte at
\* offset at
Dispatched(at) ==
    /\ last.op \in {"Parser_next", "ParseArray_next"}
    /\ last.skips0 = <<>>
    /\ last.pos0 <= at
    /\ pos > at

\* C12: a value that begins with a byte that is no digit, '-', letter, '[',
\* '{' or '"' makes next() return Err(InvalidIdentifier); the call does not
\* fail fatally.
C12_StrayByteIsError ==
    (input \in StrayDocs /\ Dispatched(StrayAt(input))) =>
        /\ ~panicked
        /\ last.res.kind = "Err"
        /\ last.res.val = "InvalidIdentifier"

-----------------------------------------------------------------------------
(* Number tokens *)

\* an integer literal: an optional '-' and digits
IsInteger(t) == IsDigits(IF t[1] = "-" THEN Tail(t) ELSE t)

\* C13: a number token that none of the u64, i64 and f64 parses accepts is
\* returned as Err(InvalidNumber); the call does not fail fatally.
C13_InvalidNumberIsError ==
    (/\ input \in NumberDocs
     /\ Dispatched(0)
     /\ ~parse_u64(input) /\ ~parse_i64(input) /\ ~parse_f64(input)) =>
        /\ ~panicked
        /\ last.res.kind = "Err"
        /\ last.res.val = "InvalidNumber"

\* the first next() returned the only token of a NumberDocs input as a number
NumberRead == input \in NumberDocs /\ Dispatched(0) /\ last.res.kind = "Number"

\* C14 as stated: unsigned if the text parses as u64, otherwise signed if it
\* parses as i64, otherwise binary64.
C14_TriadAsStated ==
    NumberRead =>
        last.res.val = (IF parse_u64(input) THEN "PosInt"
                        ELSE IF parse_i64(input) THEN "NegInt" ELSE "Float")

\* C14: unsigned if the text parses as u64; otherwise, if it parses as i64,
\* signed when the value is below zero and unsigned when it is zero (-0);
\* otherwise binary64.  0 and 1 are unsigned, -2 is signed, an integer literal
\* above 2^64-1 or below -2^63 is binary64.
C14_TriadNarrowing ==
    NumberRead =>
        /\ last.res.text = input
        /\ last.res.val =
              (IF parse_u64(input) THEN "PosInt"
               ELSE IF parse_i64(input)
               THEN (IF TrimZeros(Tail(input)) = <<"0">> THEN "PosInt" ELSE "NegInt")
               ELSE "Float")
        /\ input \in {<<"0">>, <<"1">>, U64Max} => last.res.val = "PosInt"
        /\ input \in {<<"-", "2">>, <<"-">> \o I64MinMagnitude} =>
              last.res.val = "NegInt"
        /\ (/\ IsInteger(input)
            /\ ~DigitsLeq(TrimZeros(StripSign(input)),
                          IF input[1] = "-" THEN I64MinMagnitude ELSE U64Max)) =>
              last.res.val = "Float"

\* -0 was read: it is no u64, it is an i64, and it is stored unsigned
C14_Witness ==
    /\ NumberRead
    /\ input = <<"-", "0">>
    /\ ~parse_u64(input) /\ parse_i64(input)
    /\ last.res.val = "PosInt"

-----------------------------------------------------------------------------
(* End of input inside an identifier *)

\* the offset where the identifier of a PrefixDocs input begins
PrefixAt(t) == IF t[1] = "[" THEN 1 ELSE 0

\* C15: when the input ends inside a proper prefix of null, true or false,
\* the next() that started the identifier returns Err(EofWhileParsingValue):
\* not None, not Err(InvalidIdentifier), and not a fatal failure.
C15_EofInsideIdentifier ==
    (input \in PrefixDocs /\ Dispatched(PrefixAt(input))) =>
        /\ ~panicked
        /\ last.res.kind = "Err"
        /\ last.res.val = "EofWhileParsingValue"
        /\ pos = Len(input)

\* the identifier of nul and of [fals was started and ran into the end
C15_Witness ==
    /\ input \in {<<"n", "u", "l">>, <<"[", "f", "a", "l", "s">>}
    /\ Dispatched(PrefixAt(input))
    /\ last.res = Err("EofWhileParsingValue")

-----------------------------------------------------------------------------
(* KeyVal *)

\* C16: key() may be called at most once per KeyVal.  The first call sets
\* key_consumed and returns a ParseString with the cursor just after the
\* key's opening quote; a second call on the same KeyVal is fatal and returns
\* no ParseString.
C16_KeyAtMostOnce ==
    last.op = "KeyVal_key" =>
        IF last.h.key_consumed
        THEN /\ panicked
             /\ last.res.kind = "Panic"
             /\ \A j \in 1..Len(handles) :
                   handles[j].kind = "String" => handles[j].owner # last.idx
        ELSE /\ ~panicked
             /\ last.res.kind = "String"
             /\ handles[last.idx].kind = "KeyVal"
             /\ handles[last.idx].key_consumed
             /\ handles[Len(handles)].kind = "String"
             /\ handles[Len(handles)].owner = last.idx
             /\ pos = last.h.start + 1
             /\ input[pos] = Quote

\* key() was called a second time on a KeyVal
C16_Witness ==
    /\ last.op = "KeyVal_key"
    /\ last.h.key_consumed
    /\ panicked

\* the index of the first byte at or after j that is no space
RECURSIVE RefSkipSpaces(_, _)
RefSkipSpaces(t, j) ==
    IF j <= Len(t) /\ t[j] = " " THEN RefSkipSpaces(t, j + 1) ELSE j

\* the index of the first byte of the value of the pair whose key opens at
\* offset start
RefValue(t, start) ==
    RefSkipSpaces(t, RefSkipSpaces(t, RefQuote(t, start + 2) + 1) + 1)

\* the index of the first byte at or after j that is neither space nor comma
RECURSIVE RefSkipCommas(_, _)
RefSkipCommas(t, j) ==
    IF j <= Len(t) /\ t[j] \in {" ", ","} THEN RefSkipCommas(t, j + 1) ELSE j

\* the offsets at which the keys of an object open, from index j on
RECURSIVE RefKeys(_, _)
RefKeys(t, j) ==
    IF RefSkipCommas(t, j) > Len(t) \/ t[RefSkipCommas(t, j)] # Quote THEN {}
    ELSE {RefSkipCommas(t, j) - 1}
         \cup RefKeys(t, RefEnd(t, RefValue(t, RefSkipCommas(t, j) - 1)) + 1)

\* value() was called on the KeyVal of a pair of the object, with the key
\* untouched or read whole
ValueCalled ==
    /\ last.op = "KeyVal_value"
    /\ input \in WellFormed \cup PairDocs \cup Scenarios
    /\ last.h.start \in RefKeys(input, handles[last.h.owner].start + 2)
    /\ IF last.h.key_consumed THEN last.pos0 = RefQuote(input, last.h.start + 2)
       ELSE last.pos0 = last.h.start + 1

\* value() returns the value of its pair
ValueOfPair ==
    ValueCalled =>
        /\ ~panicked
        /\ last.res.kind = RefKind(input[RefValue(input, last.h.start)])
        /\ last.res.at = RefValue(input, last.h.start) - 1

Scalars == {"Null", "Bool", "Number"}

\* the pair after the one that begins at offset start, among the pairs cs
PairAfter(res, ended, cs, start) ==
    \E k \in 1..Len(cs) :
        /\ cs[k].at = start
        /\ IF k < Len(cs) THEN IsChild(res, cs[k + 1])
           ELSE res.kind = "None" /\ ended

\* a next() on the object right after value() has returned a scalar yields the
\* pair that follows, or None at the closing brace
NextAfterValue ==
    (/\ ValueCalled
     /\ input \in WellFormed \cup PairDocs
     /\ last.res.kind \in Scalars
     /\ last'.op = "ParseObject_next"
     /\ last'.idx = last.h.owner) =>
        PairAfter(last'.res, handles'[last'.idx].ended,
                  RefChildren("Object", last'.h.start), last.h.start)

\* C17: value() without a prior key() skips the key string, whitespace, the
\* ':' and whitespace and returns the value of the pair; after the key has
\* been read whole it returns the same value; in both cases the next() on the
\* object that follows yields the next pair.
C17_ValueThenNextPair == []ValueOfPair /\ [][NextAfterValue]_vars

-----------------------------------------------------------------------------
(* Escapes in strings *)

Body == SubSeq(input, 2, Len(input) - 1)

\* a body with its escapes \\ and \" replaced by the character they stand for
RECURSIVE RefUnescape(_)
RefUnescape(b) ==
    IF b = <<>> THEN <<>>
    ELSE IF b[1] = Backslash /\ Len(b) >= 2
         THEN <<b[2]>> \o RefUnescape(SubSeq(b, 3, Len(b)))
         ELSE <<b[1]>> \o RefUnescape(Tail(b))

\* the last operation began to read the string of a StringDocs input with op
ReadBody(bodies, ops) ==
    /\ input \in {StringDoc(b) : b \in bodies}
    /\ last.op \in ops
    /\ last.pos0 = 1
    /\ last.skips0 = <<>>

\* C18: read_owned() and read_into() decode escapes and stop only at the first
\* unescaped quote: an escaped quote is appended to the result as a literal
\* quote and does not end the string (a\"bc gives a"bc).
C18_WholeStringEscapes ==
    ReadBody(QuoteBodies, {"read_into", "read_owned"}) =>
        /\ ~panicked
        /\ last.res.kind = "Ok"
        /\ last.res.text = RefUnescape(Body)
        /\ pos = Len(input)

\* the backspace character U+0008, which the byte b can never be
Backspace == "U+0008"

RefHexVal(c) ==
    CASE c \in Digit -> DigitVal(c)
      [] c \in {"a", "A"} -> 10 [] c \in {"b", "B"} -> 11
      [] c \in {"c", "C"} -> 12 [] c \in {"d", "D"} -> 13
      [] c \in {"e", "E"} -> 14 [] c \in {"f", "F"} -> 15

RECURSIVE RefHex(_, _)
RefHex(hex, val) ==
    IF hex = <<>> THEN val ELSE RefHex(Tail(hex), val * 16 + RefHexVal(hex[1]))

\* the character that a body of one escape stands for, by the escape table
RefChar(b) ==
    IF b[2] = "u"
    THEN [Res("Char", "", <<>>) EXCEPT !.cp = RefHex(SubSeq(b, 4, Len(b) - 1), 0)]
    ELSE Res("Char", "",
             CASE b[2] = "r" -> <<"\r">> [] b[2] = "n" -> <<"\n">>
               [] b[2] = "t" -> <<"\t">> [] b[2] = "f" -> <<"\f">>
               [] b[2] = "b" -> <<Backspace>> [] OTHER -> <<b[2]>>)

\* C19: ParseChars decodes escapes by the table: \\ and \" give the literal
\* character, \r \n \t \b \f the control character, \/ the slash, and \u{H..}
\* with digits 0-9, a-f or A-F the character of that scalar value.
C19_CharEscapes ==
    ReadBody(EscapeBodies, {"ParseChars_next"}) =>
        /\ ~panicked
        /\ last.res = RefChar(Body)
        /\ pos = Len(input) - 1

\* C20: invalid escapes are reported as errors on every read route: a
\* backslash before a character outside the table is InvalidEscape, a \u{..}
\* that is no Unicode scalar value (a surrogate, above 0x10FFFF, or more
\* digits than 32 bits hold) is InvalidUnicodeCodePoint; neither is dropped
\* nor turned into another character.
C20_InvalidEscapesReported ==
    /\ ReadBody(BadBodies, {"read_into", "ParseChars_next"}) =>
          /\ last.res.kind = "Err"
          /\ last.res.val = (IF Body[2] = "x" THEN "InvalidEscape"
                             ELSE "InvalidUnicodeCodePoint")
    /\ ReadBody(BadBodies, {"read_owned"}) => last.res.kind # "Ok"

-----------------------------------------------------------------------------
(* Dropping a ParseChars *)

\* a ParseChars over a string of a well-formed input was dropped with the
\* cursor inside the string or just after its closing quote
CharsDropped ==
    /\ last.op = "drop"
    /\ last.h.kind = "Chars"
    /\ input \in WellFormed
    /\ input[last.h.start + 1] = Quote
    /\ input[last.h.start + 2] \in {"s", "k"}
    /\ last.pos0 > last.h.start
    /\ last.pos0 <= RefQuote(input, last.h.start + 2)

\* the ParseChars has returned None at the closing quote
Exhausted == last.pos0 = RefQuote(input, last.h.start + 2)

\* C21: dropping a ParseChars before it has returned None enqueues a
\* SkipString job; dropping one that has returned None at the closing quote
\* enqueues nothing.
C21_CharsDropSkips ==
    CharsDropped =>
        /\ pos = last.pos0
        /\ skips = IF Exhausted THEN last.skips0
                   ELSE Append(last.skips0, SkipString)

-----------------------------------------------------------------------------
(* The skip queue *)

\* C26: when the drain at the start of a next() completes on an input that is
\* not truncated, no job remains pending, the jobs of the transient handles
\* that the drain itself made and dropped included.
C26_DrainEmptiesQueue ==
    (/\ last.op \in NextOps
     /\ input \in WellFormed
     /\ last.skips0 # <<>>
     /\ last.drained
     /\ ~panicked) => skips = <<>>

\* the KeyVal of a pair of the object was dropped, with its key untouched
\* (key() not called, or called and the ParseString dropped unread) or read
\* whole, and its job is all that the drop has left to do
KeyValDropped ==
    /\ last.op = "drop"
    /\ last.h.kind = "KeyVal"
    /\ input \in WellFormed \cup PairDocs \cup NestedDocs
    /\ last.h.start \in RefKeys(input, handles[last.h.owner].start + 2)
    /\ \/ /\ pos = last.h.start + 1
          /\ last.skips0 = IF last.h.key_consumed THEN <<SkipString>> ELSE <<>>
       \/ /\ last.h.key_consumed
          /\ pos = RefQuote(input, last.h.start + 2)
          /\ last.skips0 = <<>>

\* C27: the job of a dropped KeyVal skips the rest of the key exactly when
\* key() had not been called, then whitespace, ':' and whitespace, then the
\* whole value however deeply nested, and leaves the cursor just after the
\* value; a KeyVal whose value() was called enqueues no job.
C27_ObjectValueJob ==
    /\ KeyValDropped =>
          /\ skips = Append(last.skips0, SkipObjectValue(last.h.key_consumed))
          /\ ~do_skips(Session).panic
          /\ do_skips(Session).pos = RefEnd(input, RefValue(input, last.h.start))
    /\ last.op = "KeyVal_value" => skips = last.skips0

\* no pair of the input has a string for its value
NoStringValue ==
    \A j \in 1..(Len(input) - 1) : input[j] = ":" => input[j + 1] # Quote

\* an unread string was dropped, and then the array that holds it as an element
StringThenArray ==
    /\ last.op = "drop"
    /\ last.h.kind = "Array"
    /\ input \in WellFormed
    /\ NoStringValue
    /\ skips = <<SkipString, SkipArray>>
    /\ \E c \in 1..Len(input) :
          /\ c <= Len(RefChildren("Array", last.h.start))
          /\ RefChildren("Array", last.h.start)[c].kind = "String"
          /\ RefChildren("Array", last.h.start)[c].at = pos - 1

\* the ParseString of a key was dropped unread, and then its KeyVal
KeyThenKeyVal ==
    /\ KeyValDropped
    /\ NoStringValue
    /\ skips = <<SkipString, SkipObjectValue(TRUE)>>

\* the session in which the for loop of do_skips runs the jobs it has taken
Draining == [Session EXCEPT !.skips = <<>>, !.drained = TRUE]

\* C28: the jobs pending at the start of a drain run in insertion order.
\* When an unread child and then its parent are dropped, the child's job has
\* run to completion (the cursor is just after the child's closing quote)
\* before the parent's job starts, and the drain ends just after the parent.
C28_InsertionOrder ==
    /\ StringThenArray =>
          /\ run_skip(skips[1], Draining).pos = RefQuote(input, pos + 1)
          /\ do_skips(Session) =
                run_skip(skips[2], run_skip(skips[1], Draining))
          /\ do_skips(Session).pos = RefClose(input, last.h.start + 2, 1)
          /\ ~do_skips(Session).panic
    /\ KeyThenKeyVal =>
          /\ run_skip(skips[1], Draining).pos = RefQuote(input, pos + 1)
          /\ do_skips(Session) =
                run_skip(skips[2], run_skip(skips[1], Draining))
          /\ do_skips(Session).pos = RefEnd(input, RefValue(input, last.h.start))
          /\ ~do_skips(Session).panic

\* both cases: a string in an array followed by an element, and a key
C28_Witness ==
    \/ StringThenArray /\ input[RefQuote(input, pos + 1) + 1] = ","
    \/ KeyThenKeyVal /\ input[RefValue(input, last.h.start)] = "["

\* job after the drain has reached s, unless a job before it has panicked
Then(job, s) == IF s.panic THEN s ELSE run_skip(job, s)

\* two jobs are pending
TwoPending == ~panicked /\ Len(skips) = 2

\* C29 as stated: the queue is a stack; of the jobs pending at the start of a
\* drain the newest is executed first and the older ones after it.
C29_NewestFirst ==
    TwoPending =>
        do_skips(Session) = Then(skips[1], Then(skips[2], Draining))

\* C29: the queue is first-in-first-out; of the jobs pending at the start of
\* a drain the oldest is executed first and the newer ones after it.
C29_OldestFirst ==
    TwoPending =>
        do_skips(Session) = Then(skips[2], Then(skips[1], Draining))

\* two different jobs are pending whose order makes a difference
C29_Witness ==
    /\ TwoPending
    /\ skips[1] # skips[2]
    /\ Then(skips[2], Then(skips[1], Draining))
          # Then(skips[1], Then(skips[2], Draining))

-----------------------------------------------------------------------------
(* Ended handles *)

ContainerNext == {"ParseArray_next", "ParseObject_next"}

Closer(kind) == IF kind = "Array" THEN "]" ELSE "}"

\* C30: once next() on a ParseArray (ParseObject) has consumed the closing
\* ']' ('}') and returned None, the handle is ended for good: every later
\* next() returns None without draining the queue and without consuming a
\* byte, and dropping the handle enqueues no job.
C30_EndedForever ==
    /\ (last.op \in ContainerNext /\ ~last.h.ended /\ handles[last.idx].ended) =>
          /\ last.res.kind = "None"
          /\ pos > last.pos0
          /\ input[pos] = Closer(last.h.kind)
    /\ (last.op \in ContainerNext /\ last.h.ended) =>
          /\ last.res.kind = "None"
          /\ ~last.drained
          /\ pos = last.pos0
          /\ skips = last.skips0
          /\ handles[last.idx].ended
          /\ ~panicked
    /\ (last.op = "drop" /\ last.h.kind \in {"Array", "Object"} /\ last.h.ended) =>
          /\ pos = last.pos0
          /\ skips = last.skips0

\* next() was called on an ended array while bytes were left
C30_Witness ==
    /\ last.op = "ParseArray_next"
    /\ last.h.ended
    /\ pos < Len(input)

-----------------------------------------------------------------------------
(* What the emitter is to write, read off the calls alone *)

RECURSIVE RefJoin(_, _)
RefJoin(texts, sep) ==
    IF texts = <<>> THEN <<>>
    ELSE IF Len(texts) = 1 THEN texts[1]
    ELSE texts[1] \o <<sep>> \o RefJoin(Tail(texts), sep)

RECURSIVE RefJson(_)
RefJson(v) ==
    CASE v.ty \notin {"str", "Vec"} -> v.text
      [] v.ty = "str" -> <<Quote>> \o v.text \o <<Quote>>
      [] v.ty = "Vec" ->
            <<"[">> \o RefJoin([i \in 1..Len(v.items) |-> RefJson(v.items[i])],
                               ",") \o <<"]">>

RefOpener(kind) ==
    CASE kind = "String" -> Quote
      [] kind = "Array" -> "["
      [] kind = "Object" -> "{"

RefCloser(kind) ==
    CASE kind = "String" -> Quote
      [] kind = "Array" -> "]"
      [] kind = "Object" -> "}"

RefKey(tok) ==
    IF tok.keyed THEN <<Quote>> \o tok.key \o <<Quote, ":">> ELSE <<>>

\* the bytes of one call, without the separator before it
RefToken(tok) ==
    CASE tok.t = "value" -> RefKey(tok) \o RefJson(tok.v)
      [] tok.t = "open" -> RefKey(tok) \o <<RefOpener(tok.kind)>>
      [] tok.t = "text" -> tok.v.text
      [] tok.t = "close" -> <<RefCloser(tok.kind)>>

\* how many handles are open before call i
RefDepth(log, i) ==
    Cardinality({j \in 1..(i - 1) : log[j].t = "open"})
    - Cardinality({j \in 1..(i - 1) : log[j].t = "close"})

\* the calls that begin a top-level item
TopItems(log) ==
    {i \in 1..Len(log) : log[i].t \in {"value", "open"} /\ RefDepth(log, i) = 0}

Count(b, bytes) == Cardinality({i \in 1..Len(bytes) : bytes[i] = b})

Written == SubSeq(dst.bytes, Len(elast.bytes0) + 1, Len(dst.bytes))

-----------------------------------------------------------------------------
(* Newlines between top-level items *)

\* C22: as long as the sink takes every write, a call on the Emitter itself
\* (emit, string, array or object) writes one newline and then its item if a
\* top-level item was written before it and the item alone if none was, the
\* output holds one newline fewer than top-level items, and it neither begins
\* nor ends with a newline.
C22_NewlineBetweenTopLevelItems ==
    ~refused =>
        /\ elast.op # "new" /\ elast.h = NoEmit =>
              Written = (IF Len(elog) > 1 THEN <<"\n">> ELSE <<>>)
                        \o RefToken(elog[Len(elog)])
        /\ elog # <<>> =>
              /\ Count("\n", dst.bytes) = Cardinality(TopItems(elog)) - 1
              /\ dst.bytes[1] # "\n"
              /\ dst.bytes[Len(dst.bytes)] # "\n"

C22_Witness ==
    /\ ~refused
    /\ emits = <<>>
    /\ \E i, j, k \in TopItems(elog) :
          /\ i < j /\ j < k
          /\ {elog[i].t, elog[j].t, elog[k].t} = {"value", "open"}
          /\ \E n \in {i, j, k} : elog[n].kind = "String"
          /\ \E n \in {i, j, k} : elog[n].kind \in {"Array", "Object"}

-----------------------------------------------------------------------------
(* Commas between siblings *)

Adjacent(a, b, bytes) ==
    \E i \in 1..(Len(bytes) - 1) : bytes[i] \in a /\ bytes[i + 1] \in b

\* C23: as long as the sink takes every write, a call on an EmitArray or an
\* EmitObject that writes or opens a sibling writes one ',' first if the
\* handle already has a sibling and none if it has not, then the sibling, an
\* object's as "key":value; and no ',' stands directly after an opening
\* delimiter or directly before a closing one.
C23_CommaBetweenSiblings ==
    ~refused =>
        /\ elast.h.kind \in {"Array", "Object"} /\ elast.op # "drop" =>
              Written = (IF elog[Len(elog) - 1].t = "open" THEN <<>>
                         ELSE <<",">>)
                        \o RefToken(elog[Len(elog)])
        /\ ~Adjacent({"[", "{"}, {","}, dst.bytes)
        /\ ~Adjacent({","}, {"]", "}"}, dst.bytes)
        /\ ~Adjacent({","}, {","}, dst.bytes)

C23_Witness ==
    /\ ~refused
    /\ elast.op = "emit"
    /\ elast.h.kind = "Array"
    /\ elast.h.started
    /\ \E i \in 2..Len(elog) :
          /\ elog[i].t = "open" /\ elog[i].keyed
          /\ elog[i - 1].t = "value" /\ elog[i - 1].keyed

-----------------------------------------------------------------------------
(* Opening and closing delimiters *)

Delimiters == {Quote, "[", "]", "{", "}"}

IsDelimiter(b) == b \in Delimiters

\* every delimiter closes the innermost one still open; nothing is a
\* delimiter inside a string but the quote that ends it
RECURSIVE Nested(_, _)
Nested(bytes, open) ==
    IF bytes = <<>> THEN open = <<>>
    ELSE IF open # <<>> /\ Head(open) = Quote
    THEN Nested(Tail(bytes), IF Head(bytes) = Quote THEN Tail(open) ELSE open)
    ELSE IF Head(bytes) \in {Quote, "[", "{"}
    THEN Nested(Tail(bytes), <<Head(bytes)>> \o open)
    ELSE IF Head(bytes) \in {"]", "}"}
    THEN /\ open # <<>>
         /\ Head(open) = (IF Head(bytes) = "]" THEN "[" ELSE "{")
         /\ Nested(Tail(bytes), Tail(open))
    ELSE Nested(Tail(bytes), open)

RECURSIVE RefFlat(_)
RefFlat(log) ==
    IF log = <<>> THEN <<>> ELSE RefToken(Head(log)) \o RefFlat(Tail(log))

Opened == elast.op \in {"string", "array", "object", "emit_array", "emit_object"}

-----------------------------------------------------------------------------
(* Round trip *)

RECURSIVE DigitsVal(_)
DigitsVal(t) ==
    IF t = <<>> THEN 0
    ELSE 10 * DigitsVal(SubSeq(t, 1, Len(t) - 1)) + DigitVal(t[Len(t)])

Zeros(n) == [i \in 1..n |-> "0"]

RECURSIVE TrimTrailingZeros(_)
TrimTrailingZeros(t) ==
    IF t # <<>> /\ t[Len(t)] = "0"
    THEN TrimTrailingZeros(SubSeq(t, 1, Len(t) - 1)) ELSE t

\* Display for u64 and i64: the digits of the value (a PosInt may come from
\* a text with a sign: +1, -0)
display_u64(t) == TrimZeros(StripSign(t))

display_i64(t) ==
    (IF t[1] = "-" /\ TrimZeros(StripSign(t)) # <<"0">> THEN <<"-">> ELSE <<>>)
    \o TrimZeros(StripSign(t))

\* Display for f64: the shortest decimal that reads back as the value,
\* without an exponent and without a fraction when the value is whole.  For a
\* text of at most 15 significant digits that is the text's own digits: digs
\* with the decimal point after the first point of them.
display_digits(minus, digs, point) ==
    (IF minus THEN <<"-">> ELSE <<>>)
    \o TrimZeros(<<"0">> \o
                 (IF point <= 0 THEN <<>>
                  ELSE IF point >= Len(digs)
                  THEN digs \o Zeros(point - Len(digs))
                  ELSE SubSeq(digs, 1, point)))
    \o (LET part == TrimTrailingZeros(
                        IF point <= 0 THEN Zeros(0 - point) \o digs
                        ELSE IF point >= Len(digs) THEN <<>>
                        ELSE SubSeq(digs, point + 1, Len(digs)))
        IN IF part = <<>> THEN <<>> ELSE <<".">> \o part)

display_mantissa(minus, m, dots, exp) ==
    IF dots = {} THEN display_digits(minus, m, Len(m) + exp)
    ELSE display_digits(minus,
                        SubSeq(m, 1, Min(dots) - 1)
                            \o SubSeq(m, Min(dots) + 1, Len(m)),
                        Min(dots) - 1 + exp)

display_exp(minus, body, es) ==
    IF es = {}
    THEN display_mantissa(minus, body,
                          {i \in 1..Len(body) : body[i] = "."}, 0)
    ELSE display_mantissa(
             minus, SubSeq(body, 1, Min(es) - 1),
             {i \in 1..(Min(es) - 1) : body[i] = "."},
             (IF body[Min(es) + 1] = "-" THEN 0 - 1 ELSE 1)
             * DigitsVal(StripSign(SubSeq(body, Min(es) + 1, Len(body)))))

display_f64(t) ==
    display_exp(t[1] = "-", StripSign(t),
                {i \in 1..Len(StripSign(t)) : StripSign(t)[i] = "e"})

\* The x a caller has for a parsed Number n, the one with Number::from(x) == n,
\* as the value it passes to emit()
NumberValue(res) ==
    CASE res.val = "PosInt" -> Num("u64", display_u64(res.text))
      [] res.val = "NegInt" -> Num("i64", display_i64(res.text))
      [] res.val = "Float" -> Num("f64", display_f64(res.text))

\* What a fresh Emitter over a Vec holds after emit(v)
Emitted(v) == Emitter_emit(FALSE, v, Vec).d.bytes

\* JSON numbers of few digits
RoundNumbers == {
    <<"0">>, <<"1">>, <<"-", "2">>, <<"-", "0">>, <<"6", ".", "2", "8">>,
    <<"1", "e", "5">>, <<"-", "1", ".", "5">>, <<"2", "e", "-", "3">> }

\* strings without a quote, a backslash or a control character
RoundStrings == {StringDoc(<<"a", "b">>), StringDoc(<<"s">>)}

\* a plain string that was read whole is written back byte for byte
RoundTripStrings ==
    /\ input \in RoundStrings
    /\ last.op \in {"read_into", "read_owned"}
    /\ last.pos0 = 1
    /\ last.skips0 = <<>>
    => /\ last.res.kind = "Ok"
       /\ Emitted(Str(last.res.text)) = input

\* C25: a document that is one number representable as Number, or one plain
\* ASCII string, is written back byte for byte when what the parser returned
\* for it is emitted.
C25_RoundTrip ==
    /\ input \in RoundNumbers /\ NumberRead =>
          Emitted(NumberValue(last.res)) = input
    /\ RoundTripStrings

-----------------------------------------------------------------------------
(* The end of the source inside an array *)

\* nothing but whitespace is left of the input after offset j
Blank(j) == \A i \in (j + 1)..Len(input) : input[i] \in Whitespace

ArrayJobs(jobs) == \A i \in 1..Len(jobs) : jobs[i] = SkipArray

\* a ParseArray::next on an array that has not ended, called when the source
\* has nothing left but whitespace and the queue holds nothing but arrays
NextAtEnd ==
    /\ last.op = "ParseArray_next"
    /\ ~last.h.ended
    /\ Blank(last.pos0)
    /\ ArrayJobs(last.skips0)

\* a Parser::next called on the exhausted source with the jobs of
\* unterminated arrays pending
NextAfterEnd ==
    /\ last.op = "Parser_next"
    /\ last.pos0 = Len(input)
    /\ last.skips0 # <<>>
    /\ ArrayJobs(last.skips0)

\* C31: when the source ends inside an array, ParseArray::next returns None,
\* no error, and leaves the array not ended; a Parser::next on the exhausted
\* source returns None as well, and the drain it starts leaves in the queue
\* the jobs of the unterminated arrays it found there.
C31_LiberalEndOfStream ==
    /\ NextAtEnd =>
          /\ ~panicked
          /\ last.res.kind = "None"
          /\ ~handles[last.idx].ended
          /\ pos = Len(input)
          /\ skips = last.skips0
    /\ NextAfterEnd =>
          /\ ~panicked
          /\ last.res.kind = "None"
          /\ pos = Len(input)
          /\ skips = last.skips0

C31_Witness ==
    /\ NextAfterEnd
    /\ Len(last.skips0) = 2
    /\ Len(yielded) = 2
    /\ yielded[1].kind = "Array"
    /\ yielded[2].kind = "None"

-----------------------------------------------------------------------------
(* Termination *)

\* the session in which the running next() was called
Began ==
    [pos |-> running.pos0, skips |-> running.skips0, panic |-> FALSE,
     drained |-> FALSE]

SameAs(d) ==
    IF panicked THEN d.panic
    ELSE ~d.panic /\ pos = d.pos /\ skips = d.skips

\* the drain run turn by turn ends where do_skips ends
DrainRefines ==
    running.op # "none" /\ (stack = <<>> \/ panicked) => SameAs(do_skips(Began))

\* C32: every next() that has begun its drain returns or panics: the loops
\* of the drain (the for loop of do_skips, the while loops of skip_array,
\* skip_obj and skip_obj_value, the loops of the next() they call, the loop
\* that reads an object value again after an error) take finitely many turns,
\* and they leave the session that do_skips, computed as a whole, leaves.
C32_Termination == []Productive /\ []DrainRefines /\ (Busy ~> ~Busy)

\* the loop of skip_obj_value is about to read the value again after an error
C32_Witness ==
    /\ Busy
    /\ Len(running.skips0) = 1
    /\ running.skips0[1].kind = "ObjectValue"
    /\ Len(stack) = 2
    /\ stack[2].f = "skip_obj_value"
    /\ pos > running.pos0

-----------------------------------------------------------------------------
(* Where a string ends *)

\* the index of the first quote, from j on, that no backslash escapes
RECURSIVE RefUnescapedQuote(_, _)
RefUnescapedQuote(t, j) ==
    IF j > Len(t) THEN j
    ELSE IF t[j] = Backslash THEN RefUnescapedQuote(t, j + 2)
    ELSE IF t[j] = Quote THEN j
    ELSE RefUnescapedQuote(t, j + 1)

\* a ParseChars over the string of a QuoteBodies input returned None from
\* inside the body
CharsExhausted ==
    /\ input \in {StringDoc(b) : b \in QuoteBodies}
    /\ last.op = "ParseChars_next"
    /\ last.res.kind = "None"
    /\ last.skips0 = <<>>
    /\ last.pos0 < RefUnescapedQuote(input, 2)

\* the string of a QuoteBodies input was dropped unread: its job is pending
StringDeferred ==
    /\ input \in {StringDoc(b) : b \in QuoteBodies}
    /\ last.op = "drop"
    /\ last.h.kind = "String"
    /\ pos = 1
    /\ skips = <<SkipString>>

\* C33: all ways of finishing a string agree on where it ends: read_into and
\* read_owned, a ParseChars run to its None, and the deferred SkipString job
\* each leave the cursor just after the same closing quote, the first quote
\* that no backslash escapes.
C33_StringRoutesAgree ==
    /\ ReadBody(QuoteBodies, {"read_into", "read_owned"}) =>
          pos = RefUnescapedQuote(input, 2)
    /\ CharsExhausted => pos = RefUnescapedQuote(input, 2)
    /\ StringDeferred => do_skips(Session).pos = RefUnescapedQuote(input, 2)

-----------------------------------------------------------------------------
(* A ParseChars after its None *)

\* the last call of a ParseChars over a plain string of a well-formed input
\* returned None with the cursor just after the closing quote
AtClosingQuote ==
    /\ input \in WellFormed
    /\ last.op = "ParseChars_next"
    /\ last.res.kind = "None"
    /\ input[last.h.start + 1] = Quote
    /\ input[last.h.start + 2] \in {"s", "k"}
    /\ pos = RefQuote(input, last.h.start + 2)
    /\ skips = <<>>
    /\ ~panicked

\* the step is a further next() on the same ParseChars
CalledAgain ==
    /\ last'.op = "ParseChars_next"
    /\ last'.idx = last.idx
    /\ last'.h = last.h

\* C34: once ParseChars.next() has returned None at the closing quote, every
\* further next() on the same ParseChars returns None and consumes no byte, so
\* the bytes after the string stay there for the parent.
C34_NoneAfterNone ==
    [][AtClosingQuote /\ CalledAgain =>
          /\ last'.res.kind = "None"
          /\ pos' = pos
          /\ skips' = skips
          /\ ~panicked']_vars

-----------------------------------------------------------------------------
(* The representation of a Number *)

\* the integer written t is below zero: a minus sign and a digit that is not 0
RefNegative(t) == t[1] = "-" /\ \E i \in 2..Len(t) : t[i] # "0"

\* t is the text of an integer that u64 or i64 holds and that is not below zero
NonNegative(t) == (parse_u64(t) \/ parse_i64(t)) /\ ~RefNegative(t)

\* C35: a Number in the signed representation, from parsing or from a signed
\* From conversion, is strictly negative; every integer that is not negative,
\* whatever its source type or spelling (-0 too), is in the unsigned
\* representation, so equal non-negative integers are equal Numbers.
C35_NumberRepresentation ==
    /\ NumberRead /\ last.res.val = "NegInt" => RefNegative(input)
    /\ NumberRead /\ NonNegative(input) =>
          /\ last.res.val = "PosInt"
          /\ \A t \in NumberDocs :
                (/\ NonNegative(t)
                 /\ TrimZeros(StripSign(t)) = TrimZeros(StripSign(input))) =>
                    NumberValue(number_item(Session, t).res) = NumberValue(last.res)
    /\ \A t \in NumberDocs :
          parse_i64(t) => (from_i64(t) = "NegInt" <=> RefNegative(t))

\* -0 was read and is the same Number as 0
C35_Witness ==
    /\ NumberRead
    /\ input = <<"-", "0">>
    /\ NumberValue(last.res) = NumberValue(number_item(Session, <<"0">>).res)

=============================================================================
